---------------------------- MODULE Spec2Model ----------------------------
(***************************************************************************)
(* A model of the trade reconstruction and aggregation engine of           *)
(* solana-tax-analyzer (src/src/app/api/analyze/route.ts):                 *)
(*   extractTradesFromTx  -> meetsMinValue -> combineRelatedTrades         *)
(*   -> processTrades, as the POST handler runs them.                      *)
(*                                                                         *)
(* Numbers.  The code computes with IEEE doubles; the model uses exact     *)
(* fixed-point integers.  One unit of every `amount` is 0.001 (a thousandth*)
(* of a SOL or of a token), so MIN_SOL_CHANGE = 0.001 is 1 and             *)
(* MIN_TRADE_VALUE_SOL = 0.01 is 10.  Raw lamport balances are kept in the *)
(* same unit, hence solDelta / 1e9 is the number itself.  Rounding of      *)
(* doubles is outside the model.                                           *)
(*                                                                         *)
(* Records.  A Trade keeps the fields the engine reads: signature,         *)
(* blockTime, type, from, to, involvedAddresses.  `date` and `solscanUrl`  *)
(* are functions of blockTime and signature and are left out; a TokenAmount*)
(* keeps mint and amount.  An absent involvedAddresses (the synthetic swap *)
(* of the stitcher) is the empty sequence: the only reader iterates it.    *)
(***************************************************************************)
EXTENDS Integers, Sequences, FiniteSets, TLC

VARIABLES
    phase,      \* position of the run: which function is applied next
    parsed,     \* the parsed transaction handed to extractTradesFromTx
    txTrades,   \* the Trades extractTradesFromTx returned for it
    event,      \* the Trade handed to meetsMinValue
    verdict,    \* what meetsMinValue returned for it
    pending,    \* POST: the transactions of signaturesToParse not yet parsed
    history,    \* POST: the transactions parsed so far (kept for the properties)
    trades,     \* the Trade list handed to combineRelatedTrades / processTrades
    combined,   \* the run of combineRelatedTrades on trades (with its trace)
    ledger,     \* the ProcessedTrades returned by processTrades
    fetched,    \* POST: allSignatures and the timestamps of the date range
    response,   \* POST: the JSON body of the response
    page,       \* the Net Flow each version of the page shows for the response
    chain,      \* the node's signatures of the wallet, newest first
    lastSignature,  \* POST: the cursor of the fetch loop
    retry,      \* one call of withRetry: its position and what it did so far
    home        \* the state of the page component Home and its runs in flight

vars == <<phase, parsed, txTrades, event, verdict, pending, history, trades, combined, ledger,
          fetched, response, page, chain, lastSignature, retry, home>>

-----------------------------------------------------------------------------
(* Program constants *)

WSOL_MINT == "So11111111111111111111111111111111111111112"
NoMint == "-"
MIN_TRADE_VALUE_SOL == 10
MIN_SOL_CHANGE == 1
TIME_WINDOW_SECONDS == 10
CONCURRENCY == 5
CASHBACK_ADDRESS == "AxiomRXZAq1Jgjj9pHmNqVP7Lhu67wLXZJZbaK87TTSk"

(* Bounds of the model *)
MaxEvents == 3      \* length of the list handed to combineRelatedTrades
MaxTrades == 3      \* length of the list handed to processTrades
MaxAccounts == 2    \* token accounts named in one transaction's snapshots
MaxTxs == 2         \* transactions of one analyze request
MaxChain == 5       \* signatures the node holds for the wallet
MaxRuns == 3        \* runs of handleAnalyze one page starts
SIGNATURES_PER_REQUEST == 2     \* the page size of the fetch loop (the code: 1000)

-----------------------------------------------------------------------------
(* Values *)

None == "none"

Abs(x) == IF x < 0 THEN -x ELSE x

\* the second argument, whatever the first
Max2_noClamp(a, b) == b

Max2(a, b) == IF a >= b THEN a ELSE b

SeqToSet(s) == {s[k] : k \in 1..Len(s)}

TokenAmount(mint, amount) == [mint |-> mint, amount |-> amount]

\* { mint: "-", amount: 0, amountRaw: "0", decimals: 0 }
NullAmount == TokenAmount(NoMint, 0)

Trade(sig, t, type, from, to, addrs) ==
    [signature |-> sig, blockTime |-> t, type |-> type,
     from |-> from, to |-> to, involvedAddresses |-> addrs]

-----------------------------------------------------------------------------
(* Array.prototype.sort with a numeric comparator is stable: the rank of   *)
(* an element is the number of elements that go before it.                 *)

\* the permutation p with keys[p[1]] <= keys[p[2]] <= ..., ties in index order
AscPerm(keys) ==
    LET n == Len(keys)
        rank(i) == 1 + Cardinality({j \in 1..n :
                        keys[j] < keys[i] \/ (keys[j] = keys[i] /\ j < i)})
    IN [r \in 1..n |-> CHOOSE i \in 1..n : rank(i) = r]

\* the same for a descending comparator (b - a)
\* the comparator of the ascending sort used for the final sort
DescPerm_ascending(keys) == AscPerm(keys)

DescPerm(keys) ==
    LET n == Len(keys)
        rank(i) == 1 + Cardinality({j \in 1..n :
                        keys[j] > keys[i] \/ (keys[j] = keys[i] /\ j < i)})
    IN [r \in 1..n |-> CHOOSE i \in 1..n : rank(i) = r]

Permute(s, p) == [r \in 1..Len(p) |-> s[p[r]]]

BlockTimes(s) == [k \in 1..Len(s) |-> s[k].blockTime]

-----------------------------------------------------------------------------
(* ValueFilter: meetsMinValue *)

\* the threshold taken as exclusive
meetsMinValue_exclusive(trade) ==
    IF trade.from.mint = WSOL_MINT /\ trade.from.amount > MIN_TRADE_VALUE_SOL
    THEN TRUE
    ELSE IF trade.to.mint = WSOL_MINT /\ trade.to.amount > MIN_TRADE_VALUE_SOL
    THEN TRUE
    ELSE IF /\ trade.from.mint # WSOL_MINT /\ trade.to.mint # WSOL_MINT
            /\ trade.from.mint # NoMint /\ trade.to.mint # NoMint
    THEN TRUE
    ELSE FALSE

meetsMinValue(trade) ==
    IF trade.from.mint = WSOL_MINT /\ trade.from.amount >= MIN_TRADE_VALUE_SOL
    THEN TRUE
    ELSE IF trade.to.mint = WSOL_MINT /\ trade.to.amount >= MIN_TRADE_VALUE_SOL
    THEN TRUE
    ELSE IF /\ trade.from.mint # WSOL_MINT /\ trade.to.mint # WSOL_MINT
            /\ trade.from.mint # NoMint /\ trade.to.mint # NoMint
    THEN TRUE
    ELSE FALSE

-----------------------------------------------------------------------------
(* SwapStitcher: combineRelatedTrades                                      *)
(*                                                                         *)
(* The loop state is [i, used, result, origin, usedAt, fwd, bwd]:          *)
(* i, used and result are the code's; the rest is history kept for the     *)
(* properties and read by no step: origin[k] is the set of indices of      *)
(* `sorted` that result[k] was made from, usedAt[i] is `used` when         *)
(* iteration i began, fwd and bwd are the pairs <<out, in>> merged by the  *)
(* forward search of a transfer_out and the backward search of a           *)
(* transfer_in.  Indices are 1-based.                                      *)

RECURSIVE ForwardMatch_exclusive(_, _, _, _)
\* the window taken as exclusive: a difference of exactly the window breaks
ForwardMatch_exclusive(sorted, used, i, j) ==
    IF j > Len(sorted) THEN 0
    ELSE IF j \in used THEN ForwardMatch_exclusive(sorted, used, i, j + 1)
    ELSE IF Abs(sorted[j].blockTime - sorted[i].blockTime) >= TIME_WINDOW_SECONDS
    THEN 0
    ELSE IF sorted[j].type = "transfer_in" THEN j
    ELSE ForwardMatch_exclusive(sorted, used, i, j + 1)

RECURSIVE ForwardMatch_anyDistance(_, _, _, _)
\* the forward search without the break at the end of the window
ForwardMatch_anyDistance(sorted, used, i, j) ==
    IF j > Len(sorted) THEN 0
    ELSE IF j \in used THEN ForwardMatch_anyDistance(sorted, used, i, j + 1)
    ELSE IF sorted[j].type = "transfer_in" THEN j
    ELSE ForwardMatch_anyDistance(sorted, used, i, j + 1)

RECURSIVE ForwardMatch(_, _, _, _)
\* for (let j = i + 1; j < sorted.length; j++): the index merged with the
\* transfer_out at i, or 0
ForwardMatch(sorted, used, i, j) ==
    IF j > Len(sorted) THEN 0
    ELSE IF j \in used THEN ForwardMatch(sorted, used, i, j + 1)
    ELSE IF Abs(sorted[j].blockTime - sorted[i].blockTime) > TIME_WINDOW_SECONDS
    THEN 0
    ELSE IF sorted[j].type = "transfer_in" THEN j
    ELSE ForwardMatch(sorted, used, i, j + 1)

RECURSIVE BackwardMatch(_, _, _, _)
\* for (let j = i - 1; j >= 0; j--): the index merged with the transfer_in
\* at i, or 0
BackwardMatch(sorted, used, i, j) ==
    IF j < 1 THEN 0
    ELSE IF j \in used THEN BackwardMatch(sorted, used, i, j - 1)
    ELSE IF Abs(sorted[j].blockTime - sorted[i].blockTime) > TIME_WINDOW_SECONDS
    THEN 0
    ELSE IF sorted[j].type = "transfer_out" THEN j
    ELSE BackwardMatch(sorted, used, i, j - 1)

\* the swap pushed for a merged pair: the transfer_out's signature and
\* blockTime, its from, the transfer_in's to, no involvedAddresses
SyntheticSwap(outLeg, inLeg) ==
    Trade(outLeg.signature, outLeg.blockTime, "swap", outLeg.from, inLeg.to, <<>>)

\* the loop without used.add(j) after a forward merge
StitchStep_inLegNotMarked(sorted, st) ==
    LET i == st.i
        trade == sorted[i]
        seen == [st EXCEPT !.i = i + 1, !.usedAt = Append(@, st.used)]
        keep == [seen EXCEPT !.result = Append(@, trade),
                             !.origin = Append(@, {i}),
                             !.used = @ \cup {i}]
        j == IF trade.type = "transfer_out"
             THEN ForwardMatch(sorted, st.used, i, i + 1) ELSE 0
    IN  IF i \in st.used THEN seen
        ELSE IF j # 0
        THEN [seen EXCEPT
                !.result = Append(@, SyntheticSwap(trade, sorted[j])),
                !.origin = Append(@, {i, j}),
                !.used = @ \cup {i},
                !.fwd = @ \cup {<<i, j>>}]
        ELSE keep

\* the loop that leaves a transfer_out without a forward match unmarked and
\* unpushed, for a later transfer_in to find
StitchStep_outLeftOpen(sorted, st) ==
    LET i == st.i
        trade == sorted[i]
        seen == [st EXCEPT !.i = i + 1, !.usedAt = Append(@, st.used)]
        keep == [seen EXCEPT !.result = Append(@, trade),
                             !.origin = Append(@, {i}),
                             !.used = @ \cup {i}]
    IN  IF i \in st.used THEN seen
        ELSE IF trade.type = "transfer_out" THEN
            LET j == ForwardMatch(sorted, st.used, i, i + 1)
            IN  IF j # 0
                THEN [seen EXCEPT
                        !.result = Append(@, SyntheticSwap(trade, sorted[j])),
                        !.origin = Append(@, {i, j}),
                        !.used = @ \cup {i, j},
                        !.fwd = @ \cup {<<i, j>>}]
                ELSE seen
        ELSE IF trade.type = "transfer_in" THEN
            LET j == BackwardMatch(sorted, st.used, i, i - 1)
            IN  IF j # 0
                THEN [seen EXCEPT
                        !.result = Append(@, SyntheticSwap(sorted[j], trade)),
                        !.origin = Append(@, {i, j}),
                        !.used = @ \cup {i, j},
                        !.bwd = @ \cup {<<j, i>>}]
                ELSE keep
        ELSE keep

\* one iteration of the outer loop, at index st.i
StitchStep(sorted, st) ==
    LET i == st.i
        trade == sorted[i]
        seen == [st EXCEPT !.i = i + 1, !.usedAt = Append(@, st.used)]
        keep == [seen EXCEPT !.result = Append(@, trade),
                             !.origin = Append(@, {i}),
                             !.used = @ \cup {i}]
    IN  IF i \in st.used THEN seen
        ELSE IF trade.type = "swap" THEN keep
        ELSE IF trade.type = "transfer_out" THEN
            LET j == ForwardMatch(sorted, st.used, i, i + 1)
            IN  IF j # 0
                THEN [seen EXCEPT
                        !.result = Append(@, SyntheticSwap(trade, sorted[j])),
                        !.origin = Append(@, {i, j}),
                        !.used = @ \cup {i, j},
                        !.fwd = @ \cup {<<i, j>>}]
                ELSE keep
        ELSE IF trade.type = "transfer_in" THEN
            LET j == BackwardMatch(sorted, st.used, i, i - 1)
            IN  IF j # 0
                THEN [seen EXCEPT
                        !.result = Append(@, SyntheticSwap(sorted[j], trade)),
                        !.origin = Append(@, {i, j}),
                        !.used = @ \cup {i, j},
                        !.bwd = @ \cup {<<j, i>>}]
                ELSE keep
        ELSE keep

RECURSIVE StitchLoop(_, _)
\* for (let i = 0; i < sorted.length; i++)
StitchLoop(sorted, st) ==
    IF st.i > Len(sorted) THEN st
    ELSE StitchLoop(sorted, StitchStep(sorted, st))

StitchStart ==
    [i |-> 1, used |-> {}, result |-> <<>>, origin |-> <<>>,
     usedAt |-> <<>>, fwd |-> {}, bwd |-> {}]

\* the whole run: the ascending sort, the loop, the descending sort.
\* perm[k] is the index in the input of sorted[k];
\* output is the returned list and outOrigin[k] the origin of output[k].
StitchRun(list) ==
    LET perm == AscPerm(BlockTimes(list))
        sorted == Permute(list, perm)
        end == StitchLoop(sorted, StitchStart)
        back == DescPerm(BlockTimes(end.result))
    IN  [input |-> list, perm |-> perm, sorted |-> sorted,
         used |-> end.used, usedAt |-> end.usedAt,
         result |-> end.result, origin |-> end.origin,
         fwd |-> end.fwd, bwd |-> end.bwd,
         output |-> Permute(end.result, back),
         outOrigin |-> Permute(end.origin, back)]

combineRelatedTrades(list) == StitchRun(list).output

-----------------------------------------------------------------------------
(* TradeAggregator: processTrades                                          *)
(*                                                                         *)
(* Every TokenTransaction, SolTransaction and SolMovement carries one      *)
(* history field the code does not have, src: the index in sortedTrades of *)
(* the Trade it was made from.  No step reads it.  A date is a monotone    *)
(* function of blockTime, so firstBuyDate and lastActivityDate are kept as *)
(* block times.  pnlPercent is the exact fraction num / den.               *)

\* KNOWN_ADDRESSES[addr], None for undefined
KnownLabel(addr) == IF addr = CASHBACK_ADDRESS THEN "CASHBACK" ELSE None

\* the loop looking at the first address only
FirstKnown_firstOnly(addrs, k) ==
    IF Len(addrs) >= 1 /\ KnownLabel(addrs[1]) # None THEN addrs[1] ELSE None

RECURSIVE FirstKnown(_, _)
\* for (const addr of trade.involvedAddresses) if (KNOWN_ADDRESSES[addr]) ... break:
\* the first known address from position k on, or None
FirstKnown(addrs, k) ==
    IF k > Len(addrs) THEN None
    ELSE IF KnownLabel(addrs[k]) # None THEN addrs[k]
    ELSE FirstKnown(addrs, k + 1)

\* a buy whenever SOL goes out, whatever comes in
isBuy_anyTarget(trade) == trade.from.mint = WSOL_MINT

isBuy(trade) == trade.from.mint = WSOL_MINT /\ trade.to.mint # WSOL_MINT

isSell(trade) == trade.to.mint = WSOL_MINT /\ trade.from.mint # WSOL_MINT

AggStart ==
    [mints |-> <<>>, tokenTrades |-> <<>>, solTxs |-> <<>>, allSolMovements |-> <<>>]

\* the body of `for (const trade of sortedTrades)` for the trade at index k.
\* mints is the key order of the Map tokenTrades, tokenTrades[n] the list
\* stored under mints[n].
AggStep(st, trade, k) ==
    IF trade.type = "swap" THEN
        IF ~isBuy(trade) /\ ~isSell(trade) THEN st
        ELSE
            LET buy == isBuy(trade)
                tokenMint == IF buy THEN trade.to.mint ELSE trade.from.mint
                solAmount == IF buy THEN trade.from.amount ELSE trade.to.amount
                tokenAmount == IF buy THEN trade.to.amount ELSE trade.from.amount
                tx == [signature |-> trade.signature, blockTime |-> trade.blockTime,
                       type |-> IF buy THEN "buy" ELSE "sell",
                       solAmount |-> solAmount, tokenAmount |-> tokenAmount,
                       solBalanceAfter |-> None, src |-> k]
                mv == [signature |-> trade.signature, blockTime |-> trade.blockTime,
                       change |-> IF buy THEN -solAmount ELSE solAmount,
                       type |-> IF buy THEN "swap_buy" ELSE "swap_sell",
                       src |-> k]
                known == \E n \in 1..Len(st.mints) : st.mints[n] = tokenMint
                mints2 == IF known THEN st.mints ELSE Append(st.mints, tokenMint)
                lists2 == IF known THEN st.tokenTrades ELSE Append(st.tokenTrades, <<>>)
                at == CHOOSE n \in 1..Len(mints2) : mints2[n] = tokenMint
            IN  [st EXCEPT !.mints = mints2,
                           !.tokenTrades = [lists2 EXCEPT ![at] = Append(@, tx)],
                           !.allSolMovements = Append(@, mv)]
    ELSE IF trade.type = "transfer_in" /\ trade.to.mint = WSOL_MINT THEN
        LET sourceAddress == FirstKnown(trade.involvedAddresses, 1)
            knownLabel == IF sourceAddress = None THEN None ELSE KnownLabel(sourceAddress)
            isCashback == knownLabel = "CASHBACK"
            label == IF sourceAddress # None /\ ~isCashback THEN knownLabel ELSE None
            type == IF isCashback THEN "cashback" ELSE "deposit"
        IN  [st EXCEPT
                !.solTxs = Append(@,
                    [signature |-> trade.signature, blockTime |-> trade.blockTime,
                     type |-> type, amount |-> trade.to.amount,
                     label |-> IF isCashback THEN None ELSE label,
                     sourceAddress |-> sourceAddress,
                     solBalanceAfter |-> None, src |-> k]),
                !.allSolMovements = Append(@,
                    [signature |-> trade.signature, blockTime |-> trade.blockTime,
                     change |-> trade.to.amount, type |-> type, src |-> k])]
    ELSE IF trade.type = "transfer_out" /\ trade.from.mint = WSOL_MINT THEN
        LET sourceAddress == FirstKnown(trade.involvedAddresses, 1)
            label == IF sourceAddress = None THEN None ELSE KnownLabel(sourceAddress)
        IN  [st EXCEPT
                !.solTxs = Append(@,
                    [signature |-> trade.signature, blockTime |-> trade.blockTime,
                     type |-> "withdrawal", amount |-> trade.from.amount,
                     label |-> label, sourceAddress |-> sourceAddress,
                     solBalanceAfter |-> None, src |-> k]),
                !.allSolMovements = Append(@,
                    [signature |-> trade.signature, blockTime |-> trade.blockTime,
                     change |-> -trade.from.amount, type |-> "withdrawal", src |-> k])]
    ELSE st

RECURSIVE AggLoop(_, _, _)
\* for (const trade of sortedTrades)
AggLoop(sortedTrades, st, k) ==
    IF k > Len(sortedTrades) THEN st
    ELSE AggLoop(sortedTrades, AggStep(st, sortedTrades[k], k), k + 1)

RECURSIVE RunningBalance(_, _)
\* runningBalance after the first k movements
RunningBalance(movements, k) ==
    IF k = 0 THEN 0 ELSE RunningBalance(movements, k - 1) + movements[k].change

\* the Map keeping the first value set for a key, not the last
BalanceBySignature_firstSet(movements, sig) ==
    LET hits == {k \in 1..Len(movements) : movements[k].signature = sig}
    IN  IF hits = {} THEN None
        ELSE RunningBalance(movements, CHOOSE k \in hits : \A h \in hits : k <= h)

\* balanceBySignature.get(sig) after the loop over allSolMovements: the
\* value of the last set() for that key, None when the key was never set
BalanceBySignature(movements, sig) ==
    LET hits == {k \in 1..Len(movements) : movements[k].signature = sig}
    IN  IF hits = {} THEN None
        ELSE RunningBalance(movements, CHOOSE k \in hits : \A h \in hits : h <= k)

\* tx.solBalanceAfter = balanceBySignature.get(tx.signature), for each tx
AttachBalance(txs, movements) ==
    [n \in 1..Len(txs) |->
        [txs[n] EXCEPT !.solBalanceAfter = BalanceBySignature(movements, txs[n].signature)]]

RECURSIVE SumSeq(_)
\* reduce((sum, x) => sum + x, 0), left to right
SumSeq(xs) == IF xs = <<>> THEN 0 ELSE SumSeq(SubSeq(xs, 1, Len(xs) - 1)) + xs[Len(xs)]

\* the sums taken without the test of tx.type
SolAmounts_anyType(txs, type) == [n \in 1..Len(txs) |-> txs[n].solAmount]

\* the solAmount of the transactions of kind `type`, 0 for the others
SolAmounts(txs, type) ==
    [n \in 1..Len(txs) |-> IF txs[n].type = type THEN txs[n].solAmount ELSE 0]

TokenAmounts(txs, type) ==
    [n \in 1..Len(txs) |-> IF txs[n].type = type THEN txs[n].tokenAmount ELSE 0]

\* the sum without the filter
TotalOf_anyType(solTxs, type) == SumSeq([n \in 1..Len(solTxs) |-> solTxs[n].amount])

\* solTxs.filter(t => t.type === type).reduce((sum, t) => sum + t.amount, 0)
TotalOf(solTxs, type) ==
    SumSeq([n \in 1..Len(solTxs) |-> IF solTxs[n].type = type THEN solTxs[n].amount ELSE 0])

\* the ratio without the factor 100
PnlPercent_asRatio(pnl, totalSolSpent) ==
    IF totalSolSpent > 0 THEN [num |-> pnl, den |-> totalSolSpent]
    ELSE [num |-> 0, den |-> 1]

\* totalSolSpent > 0 ? (pnl / totalSolSpent) * 100 : 0, as the fraction num / den
PnlPercent(pnl, totalSolSpent) ==
    IF totalSolSpent > 0 THEN [num |-> pnl * 100, den |-> totalSolSpent]
    ELSE [num |-> 0, den |-> 1]

\* the UnifiedTrade pushed for one entry of tokenTrades
UnifiedTradeOf(tokenMint, unsorted) ==
    LET transactions == Permute(unsorted, AscPerm(BlockTimes(unsorted)))
        totalSolSpent == SumSeq(SolAmounts(transactions, "buy"))
        totalSolReceived == SumSeq(SolAmounts(transactions, "sell"))
        totalTokensBought == SumSeq(TokenAmounts(transactions, "buy"))
        totalTokensSold == SumSeq(TokenAmounts(transactions, "sell"))
        tokensRemaining == totalTokensBought - totalTokensSold
        pnl == totalSolReceived - totalSolSpent
        buys == {n \in 1..Len(transactions) : transactions[n].type = "buy"}
    IN  [tokenMint |-> tokenMint,
         totalSolSpent |-> totalSolSpent,
         totalSolReceived |-> totalSolReceived,
         totalTokensBought |-> totalTokensBought,
         totalTokensSold |-> totalTokensSold,
         tokensRemaining |-> Max2(0, tokensRemaining),
         pnl |-> pnl,
         pnlPercent |-> PnlPercent(pnl, totalSolSpent),
         realized |-> tokensRemaining <= 0,
         transactions |-> transactions,
         firstBuyDate |-> IF buys # {}
                          THEN transactions[CHOOSE n \in buys : \A b \in buys : n <= b].blockTime
                          ELSE transactions[1].blockTime,
         lastActivityDate |-> transactions[Len(transactions)].blockTime]

LastActivities(us) == [n \in 1..Len(us) |-> us[n].lastActivityDate]

processTrades(list) ==
    LET sortedTrades == Permute(list, AscPerm(BlockTimes(list)))
        pass == AggLoop(sortedTrades, AggStart, 1)
        allSolMovements == Permute(pass.allSolMovements,
                                   AscPerm(BlockTimes(pass.allSolMovements)))
        solTxs == AttachBalance(pass.solTxs, allSolMovements)
        unified == [n \in 1..Len(pass.mints) |->
                       UnifiedTradeOf(pass.mints[n],
                                      AttachBalance(pass.tokenTrades[n], allSolMovements))]
        solOut == Permute(solTxs, DescPerm(BlockTimes(solTxs)))
    IN  [unifiedTrades |-> Permute(unified, DescPerm(LastActivities(unified))),
         solTransactions |-> solOut,
         totalDeposited |-> TotalOf(solOut, "deposit"),
         totalWithdrawn |-> TotalOf(solOut, "withdrawal"),
         totalCashback |-> TotalOf(solOut, "cashback")]

\* unifiedTrades.reduce((sum, t) => sum + t.pnl, 0)
TotalPnl(unifiedTrades) ==
    SumSeq([n \in 1..Len(unifiedTrades) |-> unifiedTrades[n].pnl])

\* the page (src/unnamed/part_001): const netFlow
netFlow(result) ==
    result.totalDeposited + result.totalCashback - result.totalWithdrawn + result.totalPnl

\* the earlier page (src/unnamed/part_000): the number of its Net Flow card
NetFlowCard(result) ==
    result.totalDeposited - result.totalWithdrawn + result.totalPnl

-----------------------------------------------------------------------------
(* BalanceDeltaExtractor: extractTradesFromTx                              *)
(*                                                                         *)
(* A value that may be null or undefined is Null or Some(v).  A parsed     *)
(* transaction is Null or Some([blockTime, accountKeys, meta]) with        *)
(* blockTime Null or Some(number) and meta Null or Some([err, preBalances, *)
(* postBalances, preTokenBalances, postTokenBalances]); a token balance    *)
(* entry is [accountIndex, mint, owner, amount, decimals] with owner None  *)
(* when the field is absent.  Account indices are 1-based and the index of *)
(* an absent wallet is 0 (the code: 0-based and -1).                       *)

Null == <<>>

Some(v) == <<v>>

\* A value the code computes once and then uses (const v = ...) is written
\* CHOOSE r \in {e(v) : v \in {...}} : TRUE, the value of e for that v.

Pow10(d) == CASE d = 0 -> 1 [] d = 1 -> 10 [] d = 2 -> 100 [] OTHER -> 1000

\* Number(BigInt(amount)) / Number(BigInt(10 ** decimals)), in thousandths:
\* exact for decimals <= 3
parseTokenAmount(amount, decimals) == (amount * 1000) \div Pow10(decimals)

\* accountKeys.findIndex(k => getPubkey(k) === wallet)
FindIndex(accountKeys, wallet) ==
    LET hits == {k \in 1..Len(accountKeys) : accountKeys[k] = wallet}
    IN  IF hits = {} THEN 0 ELSE CHOOSE k \in hits : \A h \in hits : k <= h

\* arr[index] ?? 0
BalanceAt(arr, index) == IF index \in 1..Len(arr) THEN arr[index] ELSE 0

\* pre.find(p => p.accountIndex === accountIndex)
FindEntry(entries, accountIndex) ==
    LET hits == {k \in 1..Len(entries) : entries[k].accountIndex = accountIndex}
    IN  IF hits = {} THEN Null
        ELSE Some(entries[CHOOSE k \in hits : \A h \in hits : k <= h])

RECURSIVE Distinct(_)
\* the insertion order of a Set filled from the list xs
Distinct(xs) ==
    IF xs = <<>> THEN <<>>
    ELSE CHOOSE r \in
            {IF \E k \in 1..Len(front) : front[k] = xs[Len(xs)]
             THEN front ELSE Append(front, xs[Len(xs)]) :
                front \in {Distinct(SubSeq(xs, 1, Len(xs) - 1))}} : TRUE

\* mintDeltas after `existing.amount += delta` or `mintDeltas.set(mint, ...)`;
\* mintDeltas is the list of [mint, amount, decimals] in the Map's key order
AddDelta(mintDeltas, mint, delta, decimals) ==
    IF \E k \in 1..Len(mintDeltas) : mintDeltas[k].mint = mint
    THEN [k \in 1..Len(mintDeltas) |->
            IF mintDeltas[k].mint = mint
            THEN [mintDeltas[k] EXCEPT !.amount = @ + delta]
            ELSE mintDeltas[k]]
    ELSE Append(mintDeltas, [mint |-> mint, amount |-> delta, decimals |-> decimals])

RECURSIVE TokenChangesLoop(_, _, _, _, _)
\* for (const accountIndex of allAccountIndices), from position k on
TokenChangesLoop(mintDeltas, pre, post, indices, k) ==
    IF k > Len(indices) THEN mintDeltas
    ELSE
        LET preEntry == FindEntry(pre, indices[k])
            postEntry == FindEntry(post, indices[k])
            shown == IF postEntry # Null THEN postEntry[1] ELSE preEntry[1]
            decimals == shown.decimals
            preVal == parseTokenAmount(IF preEntry # Null THEN preEntry[1].amount ELSE 0, decimals)
            postVal == parseTokenAmount(IF postEntry # Null THEN postEntry[1].amount ELSE 0, decimals)
            delta == postVal - preVal
        IN  CHOOSE r \in
                {TokenChangesLoop(next, pre, post, indices, k + 1) :
                    next \in {IF delta # 0
                              THEN AddDelta(mintDeltas, shown.mint, delta, decimals)
                              ELSE mintDeltas}} : TRUE

processTokenChanges(mintDeltas, pre, post) ==
    CHOOSE r \in
        {TokenChangesLoop(mintDeltas, a[1], a[2], a[3], 1) :
            a \in {<<pre, post,
                     Distinct([k \in 1..(Len(pre) + Len(post)) |->
                                 (pre \o post)[k].accountIndex])>>}} : TRUE

\* the filter that takes every entry, whoever owns it
OwnedBy_everyEntry(entries, wallet) ==
    SelectSeq(entries, LAMBDA t : t.owner # None)

OwnedBy(entries, wallet) ==
    SelectSeq(entries, LAMBDA t : t.owner # None /\ t.owner = wallet)

ByIndex(entries, walletIndex) ==
    SelectSeq(entries, LAMBDA t : t.owner = None /\ t.accountIndex = walletIndex)

DeltaOf(mintDeltas, mint) ==
    LET hits == {k \in 1..Len(mintDeltas) : mintDeltas[k].mint = mint}
    IN  IF hits = {} THEN Null ELSE Some(mintDeltas[CHOOSE k \in hits : TRUE])

\* the early returns without the test of meta.err
EarlyReturn_failedNotSkipped(wallet, tx) ==
    IF tx = Null THEN TRUE
    ELSE IF tx[1].meta = Null THEN TRUE
    ELSE FindIndex(tx[1].accountKeys, wallet) = 0

\* if (!parsed?.meta || parsed.meta.err) return []; ...
\* if (walletIndex === -1) return [];
EarlyReturn(wallet, tx) ==
    IF tx = Null THEN TRUE
    ELSE IF tx[1].meta = Null THEN TRUE
    ELSE IF tx[1].meta[1].err THEN TRUE
    ELSE FindIndex(tx[1].accountKeys, wallet) = 0

\* the two calls of processTokenChanges: the accounts the wallet owns, then
\* the accounts without owner at the wallet's index
WalletMintDeltas(wallet, meta, walletIndex) ==
    CHOOSE r \in
        {processTokenChanges(owned,
                             ByIndex(meta.preTokenBalances, walletIndex),
                             ByIndex(meta.postTokenBalances, walletIndex)) :
            owned \in {processTokenChanges(<<>>,
                                           OwnedBy(meta.preTokenBalances, wallet),
                                           OwnedBy(meta.postTokenBalances, wallet))}} : TRUE

\* the native bucket and the other tokens, from the wallet's native change
\* and its per-mint deltas: [empty, solChange, mintDeltas, outs, ins]
OutsAndIns(solChange, mintDeltas) ==
    LET
        hasSignificantSolChange == Abs(solChange) > MIN_SOL_CHANGE
        wsolDelta == DeltaOf(mintDeltas, WSOL_MINT)
        useWsol == wsolDelta # Null /\ Abs(wsolDelta[1].amount) > MIN_SOL_CHANGE
        nativeOuts ==
            IF useWsol
            THEN IF wsolDelta[1].amount < 0
                 THEN <<TokenAmount(WSOL_MINT, Abs(wsolDelta[1].amount))>> ELSE <<>>
            ELSE IF hasSignificantSolChange /\ solChange < -MIN_SOL_CHANGE
                 THEN <<TokenAmount(WSOL_MINT, Abs(solChange))>> ELSE <<>>
        nativeIns ==
            IF useWsol
            THEN IF wsolDelta[1].amount < 0
                 THEN <<>> ELSE <<TokenAmount(WSOL_MINT, wsolDelta[1].amount)>>
            ELSE IF /\ hasSignificantSolChange /\ ~(solChange < -MIN_SOL_CHANGE)
                    /\ solChange > MIN_SOL_CHANGE
                 THEN <<TokenAmount(WSOL_MINT, solChange)>> ELSE <<>>
        \* mintDeltas.delete(WSOL_MINT), in the first branch only
        rest == IF useWsol
                THEN SelectSeq(mintDeltas, LAMBDA d : d.mint # WSOL_MINT)
                ELSE mintDeltas
        amounts == [k \in 1..Len(rest) |-> TokenAmount(rest[k].mint, Abs(rest[k].amount))]
        negative == {k \in 1..Len(rest) : rest[k].amount < 0}
        positive == {k \in 1..Len(rest) : rest[k].amount > 0}
        pick(idx) == [r \in 1..Cardinality(idx) |->
                        amounts[CHOOSE k \in idx :
                                  Cardinality({h \in idx : h < k}) = r - 1]]
    IN  [empty |-> FALSE, solChange |-> solChange, mintDeltas |-> mintDeltas,
         outs |-> nativeOuts \o pick(negative),
         ins |-> nativeIns \o pick(positive)]

\* everything extractTradesFromTx computes before it builds the Trades:
\* [empty, solChange, mintDeltas, outs, ins]; empty is an early `return []`
ExtractDeltas(wallet, tx) ==
    IF EarlyReturn(wallet, tx)
    THEN [empty |-> TRUE, solChange |-> 0, mintDeltas |-> <<>>,
          outs |-> <<>>, ins |-> <<>>]
    ELSE
    LET meta == tx[1].meta[1]
        walletIndex == FindIndex(tx[1].accountKeys, wallet)
        solDelta == BalanceAt(meta.postBalances, walletIndex)
                        - BalanceAt(meta.preBalances, walletIndex)
        solChange == solDelta
    IN  CHOOSE r \in
            {OutsAndIns(solChange, mintDeltas) :
                mintDeltas \in {WalletMintDeltas(wallet, meta, walletIndex)}} : TRUE

\* the missing side taken from the end of the list
AtOrFirst_last(arr, i) == IF i <= Len(arr) THEN arr[i] ELSE arr[Len(arr)]

\* outs[i] ?? outs[0]
AtOrFirst(arr, i) == IF i <= Len(arr) THEN arr[i] ELSE arr[1]

\* the swaps zipped to the length of the shorter list
BuildTrades_zipShort(sig, blockTime, involvedAddresses, outs, ins) ==
    IF Len(outs) > 0 /\ Len(ins) > 0
    THEN [i \in 1..(IF Len(outs) < Len(ins) THEN Len(outs) ELSE Len(ins)) |->
            Trade(sig, blockTime, "swap", outs[i], ins[i], involvedAddresses)]
    ELSE IF Len(outs) > 0
    THEN [i \in 1..Len(outs) |->
            Trade(sig, blockTime, "transfer_out", outs[i], NullAmount, involvedAddresses)]
    ELSE [i \in 1..Len(ins) |->
            Trade(sig, blockTime, "transfer_in", NullAmount, ins[i], involvedAddresses)]

\* the classification: swaps, transfer_outs or transfer_ins
BuildTrades(sig, blockTime, involvedAddresses, outs, ins) ==
    IF Len(outs) > 0 /\ Len(ins) > 0
    THEN [i \in 1..Max2(Len(outs), Len(ins)) |->
            Trade(sig, blockTime, "swap", AtOrFirst(outs, i), AtOrFirst(ins, i),
                  involvedAddresses)]
    ELSE IF Len(outs) > 0 /\ Len(ins) = 0
    THEN [i \in 1..Len(outs) |->
            Trade(sig, blockTime, "transfer_out", outs[i], NullAmount, involvedAddresses)]
    ELSE IF Len(ins) > 0 /\ Len(outs) = 0
    THEN [i \in 1..Len(ins) |->
            Trade(sig, blockTime, "transfer_in", NullAmount, ins[i], involvedAddresses)]
    ELSE <<>>

extractTradesFromTx(sig, wallet, tx) ==
    CHOOSE r \in
        {IF d.empty THEN <<>>
         ELSE IF Len(d.outs) = 0 /\ Len(d.ins) = 0 THEN <<>>
         ELSE BuildTrades(sig,
                          IF tx[1].blockTime = Null THEN 0 ELSE tx[1].blockTime[1],
                          SelectSeq(tx[1].accountKeys, LAMBDA addr : addr # wallet),
                          d.outs, d.ins) :
            d \in {ExtractDeltas(wallet, tx)}} : TRUE

-----------------------------------------------------------------------------
(* The inputs the specifications draw from *)

Wallet == "Wallet"
Other == "Other"
TokX == "TokX"
TokY == "TokY"
TokZ == "TokZ"
TokW == "TokW"

SigNames == <<"sig1", "sig2", "sig3", "sig4", "sig5", "sig6", "sig7">>

\* (ValueFilter) the events the extractor can emit, over these amounts:
\* 0.005, 0.009, 0.01, 0.02 and 1.0
FilterAmounts == {5, 9, 10, 20, 1000}

FilterLegs == {TokenAmount(m, a) : m \in {WSOL_MINT, TokX, TokY}, a \in FilterAmounts}

FilterEvents ==
    {Trade("sig1", 100, "swap", f, t, <<Other>>) : f \in FilterLegs, t \in FilterLegs}
    \cup {Trade("sig1", 100, "transfer_out", f, NullAmount, <<Other>>) : f \in FilterLegs}
    \cup {Trade("sig1", 100, "transfer_in", NullAmount, t, <<Other>>) : t \in FilterLegs}

\* (SwapStitcher) five kinds of event at four times; 100 and 110 are exactly
\* one window apart, 100 and 111 one second more
StitchTimes == {100, 104, 110, 111}

StitchShapes == {"out_native", "out_token", "in_token", "in_native", "swap"}

StitchEvent(shape, t, sig) ==
    CASE shape = "out_native" ->
            Trade(sig, t, "transfer_out", TokenAmount(WSOL_MINT, 5000), NullAmount, <<Other>>)
      [] shape = "out_token" ->
            Trade(sig, t, "transfer_out", TokenAmount(TokY, 70000), NullAmount, <<Other>>)
      [] shape = "in_token" ->
            Trade(sig, t, "transfer_in", NullAmount, TokenAmount(TokX, 1000000), <<Other>>)
      [] shape = "in_native" ->
            Trade(sig, t, "transfer_in", NullAmount, TokenAmount(WSOL_MINT, 300), <<Other>>)
      [] OTHER ->
            Trade(sig, t, "swap", TokenAmount(WSOL_MINT, 2000), TokenAmount(TokX, 100000),
                  <<Other>>)

\* every event of a list is of its own transaction
StitchInput(c) == [k \in 1..Len(c) |-> StitchEvent(c[k][1], c[k][2], SigNames[k])]

\* (TradeAggregator) seven kinds of event in three transactions, two of them
\* in the same second; the events of one transaction share its signature
\* and block time
AggTxs == {<<"sigA", 100>>, <<"sigB", 100>>, <<"sigC", 200>>}

AggShapes ==
    {"buy_x", "sell_x", "buy_y", "swap_xy", "swap_ss", "deposit", "cashback", "withdrawal"}

AggEvent(shape, tx) ==
    CASE shape = "buy_x" ->
            Trade(tx[1], tx[2], "swap", TokenAmount(WSOL_MINT, 2000), TokenAmount(TokX, 100000),
                  <<Other>>)
      [] shape = "sell_x" ->
            Trade(tx[1], tx[2], "swap", TokenAmount(TokX, 100000), TokenAmount(WSOL_MINT, 3000),
                  <<Other>>)
      [] shape = "buy_y" ->
            Trade(tx[1], tx[2], "swap", TokenAmount(WSOL_MINT, 500), TokenAmount(TokY, 7000),
                  <<Other>>)
      [] shape = "swap_xy" ->
            Trade(tx[1], tx[2], "swap", TokenAmount(TokX, 40000), TokenAmount(TokY, 9000),
                  <<Other>>)
      [] shape = "swap_ss" ->
            Trade(tx[1], tx[2], "swap", TokenAmount(WSOL_MINT, 5000), TokenAmount(WSOL_MINT, 300),
                  <<>>)
      [] shape = "deposit" ->
            Trade(tx[1], tx[2], "transfer_in", NullAmount, TokenAmount(WSOL_MINT, 1000),
                  <<Other>>)
      [] shape = "cashback" ->
            Trade(tx[1], tx[2], "transfer_in", NullAmount, TokenAmount(WSOL_MINT, 40),
                  <<Other, CASHBACK_ADDRESS>>)
      [] OTHER ->
            Trade(tx[1], tx[2], "transfer_out", TokenAmount(WSOL_MINT, 700), NullAmount,
                  <<CASHBACK_ADDRESS>>)

AggInput(c) == [k \in 1..Len(c) |-> AggEvent(c[k][1], c[k][2])]

\* (BalanceDeltaExtractor) the token accounts a transaction may name.  One
\* has no owner field and sits at account index 1, two hold the same mint,
\* one holds wrapped SOL, one belongs to somebody else.
TokenAccounts ==
    {[accountIndex |-> 1, mint |-> TokY, owner |-> None, decimals |-> 0],
     [accountIndex |-> 3, mint |-> TokX, owner |-> Wallet, decimals |-> 3],
     [accountIndex |-> 4, mint |-> TokX, owner |-> Wallet, decimals |-> 3],
     [accountIndex |-> 5, mint |-> TokY, owner |-> Wallet, decimals |-> 0],
     [accountIndex |-> 6, mint |-> WSOL_MINT, owner |-> Wallet, decimals |-> 3],
     [accountIndex |-> 7, mint |-> TokX, owner |-> Other, decimals |-> 3]}

\* <<raw amount before, raw amount after>> of one token account; Null when
\* the snapshot has no entry for the account
Changes ==
    {<<Null, Some(5)>>, <<Some(5), Null>>, <<Some(5), Some(5)>>,
     <<Some(5), Some(7)>>, <<Some(7), Some(5)>>, <<Some(5), Some(6)>>}

\* the wallet's token accounts of a multi-hop swap, one per mint
HopAccounts ==
    {[accountIndex |-> 3, mint |-> TokX, owner |-> Wallet, decimals |-> 3],
     [accountIndex |-> 5, mint |-> TokY, owner |-> Wallet, decimals |-> 0],
     [accountIndex |-> 8, mint |-> TokZ, owner |-> Wallet, decimals |-> 0],
     [accountIndex |-> 9, mint |-> TokW, owner |-> Wallet, decimals |-> 0]}

\* in a multi-hop swap every account either gains or loses
HopChanges == {<<Some(5), Some(7)>>, <<Some(7), Some(5)>>}

\* the accounts of A in account-index order
InIndexOrder(A) ==
    [r \in 1..Cardinality(A) |->
        CHOOSE a \in A : Cardinality({b \in A : b.accountIndex < a.accountIndex}) = r - 1]

\* preTokenBalances (side 1) or postTokenBalances (side 2) for the accounts
\* A changing as ch says
Snapshot(A, ch, side) ==
    LET present == SelectSeq(InIndexOrder(A), LAMBDA a : ch[a][side] # Null)
    IN  [k \in 1..Len(present) |->
            [accountIndex |-> present[k].accountIndex, mint |-> present[k].mint,
             owner |-> present[k].owner, amount |-> ch[present[k]][side][1],
             decimals |-> present[k].decimals]]

\* the lamport balance (in thousandths of a SOL) every account starts with
StartBalances(accountKeys) == [k \in 1..Len(accountKeys) |-> 10000]

\* a parsed transaction: the wallet ends with walletPost, every other
\* account with what it started with
ParsedTx(blockTime, accountKeys, err, walletPost, pre, post) ==
    Some([blockTime |-> blockTime,
          accountKeys |-> accountKeys,
          meta |-> Some([err |-> err,
                         preBalances |-> StartBalances(accountKeys),
                         postBalances |-> [k \in 1..Len(accountKeys) |->
                             IF accountKeys[k] = Wallet THEN walletPost
                             ELSE StartBalances(accountKeys)[k]],
                         preTokenBalances |-> pre,
                         postTokenBalances |-> post])])

KeyLists == {<<Wallet, Other>>, <<Other, Wallet>>, <<Other, CASHBACK_ADDRESS>>}

\* native deltas 0, +0.001, +0.02 and -5.0
WalletPosts == {10000, 10001, 10020, 5000}

\* <<blockTime, err>>
TimeAndErr == {<<Some(100), FALSE>>, <<Null, FALSE>>, <<Some(100), TRUE>>}

\* the transactions without a body or without meta
BareInputs ==
    {Null, Some([blockTime |-> Some(100), accountKeys |-> <<Wallet, Other>>, meta |-> Null])}

\* (the analyze request) ten kinds of transaction at three times; 100 and
\* 104 are within one window, 120 is not
PipeShapes ==
    {"native_out", "token_in", "buy", "buy_two", "sell", "native_in", "reward_in",
     "dust_out", "failed", "untimed"}

\* the date ranges of a request: <<startTimestamp, endTimestamp>>, Null for
\* a date that was not given
DateRanges == {<<Null, Null>>, <<Some(104), Null>>, <<Null, Some(104)>>, <<Some(104), Some(104)>>}

PipeTimes == {100, 104, 120}

TokXAccount(amount) ==
    [accountIndex |-> 3, mint |-> TokX, owner |-> Wallet, amount |-> amount, decimals |-> 3]

TokYAccount(amount) ==
    [accountIndex |-> 5, mint |-> TokY, owner |-> Wallet, amount |-> amount, decimals |-> 0]

PipeTx(shape, t) ==
    CASE shape = "native_out" ->
            ParsedTx(Some(t), <<Wallet, Other>>, FALSE, 5000, <<>>, <<>>)
      [] shape = "token_in" ->
            ParsedTx(Some(t), <<Other, Wallet>>, FALSE, 10000,
                     <<>>, <<TokXAccount(1000000)>>)
      [] shape = "buy" ->
            ParsedTx(Some(t), <<Wallet, Other>>, FALSE, 8000,
                     <<TokXAccount(0)>>, <<TokXAccount(100000)>>)
      [] shape = "buy_two" ->
            ParsedTx(Some(t), <<Wallet, Other>>, FALSE, 8000,
                     <<>>, <<TokXAccount(100000), TokYAccount(7)>>)
      [] shape = "sell" ->
            ParsedTx(Some(t), <<Wallet, Other>>, FALSE, 13000,
                     <<TokXAccount(100000)>>, <<TokXAccount(0)>>)
      [] shape = "native_in" ->
            ParsedTx(Some(t), <<Wallet, Other>>, FALSE, 10300, <<>>, <<>>)
      [] shape = "reward_in" ->
            ParsedTx(Some(t), <<Wallet, Other, CASHBACK_ADDRESS>>, FALSE, 10040, <<>>, <<>>)
      [] shape = "dust_out" ->
            ParsedTx(Some(t), <<Wallet, Other>>, FALSE, 9995, <<>>, <<>>)
      [] shape = "untimed" ->
            ParsedTx(Null, <<Wallet, Other>>, FALSE, 8000,
                     <<TokXAccount(0)>>, <<TokXAccount(100000)>>)
      [] OTHER ->
            ParsedTx(Some(t), <<Wallet, Other>>, TRUE, 5000, <<>>, <<>>)

\* allSignatures with the transaction each signature resolves to; the
\* block time of a signature is that of its transaction
PipeInput(c) ==
    [k \in 1..Len(c) |->
        [signature |-> SigNames[k],
         blockTime |-> IF c[k][1] = "untimed" THEN Null ELSE Some(c[k][2]),
         parsed |-> PipeTx(c[k][1], c[k][2])]]

-----------------------------------------------------------------------------
(* The specifications.  Each applies the functions to inputs drawn by its  *)
(* initial condition; the variables a specification does not use keep      *)
(* their idle values.                                                      *)

Idle(used) ==
    /\ "parsed" \in used \/ parsed = Null
    /\ "event" \in used \/ event = Null
    /\ "pending" \in used \/ pending = <<>>
    /\ "trades" \in used \/ trades = <<>>
    /\ txTrades = <<>>
    /\ verdict = FALSE
    /\ history = <<>>
    /\ combined = Null
    /\ ledger = Null
    /\ "fetched" \in used \/ fetched = Null
    /\ response = Null
    /\ page = Null
    /\ "chain" \in used \/ chain = <<>>
    /\ lastSignature = Null
    /\ "retry" \in used \/ retry = Null
    /\ "home" \in used \/ home = Null

\* --- extractTradesFromTx on one transaction
InitExtract ==
    /\ phase = "extract"
    /\ \/ parsed \in BareInputs
       \/ \E A \in SUBSET TokenAccounts :
            /\ Cardinality(A) <= MaxAccounts
            /\ \E ch \in [A -> Changes], te \in TimeAndErr, keys \in KeyLists, w \in WalletPosts :
                 parsed = ParsedTx(te[1], keys, te[2], w, Snapshot(A, ch, 1), Snapshot(A, ch, 2))
       \/ \E ch \in [HopAccounts -> HopChanges], w \in WalletPosts :
            parsed = ParsedTx(Some(100), <<Wallet, Other>>, FALSE, w,
                              Snapshot(HopAccounts, ch, 1), Snapshot(HopAccounts, ch, 2))
    /\ Idle({"parsed"})

Extract ==
    /\ phase = "extract"
    /\ txTrades' = extractTradesFromTx("sig1", Wallet, parsed)
    /\ phase' = "extracted"
    /\ UNCHANGED <<parsed, event, verdict, pending, history, trades, combined, ledger, fetched, response, page,
                   chain, lastSignature, retry, home>>

SpecExtract == InitExtract /\ [][Extract]_vars

\* --- meetsMinValue on one event
InitFilter ==
    /\ phase = "filter"
    /\ event \in FilterEvents
    /\ Idle({"event"})

Filter ==
    /\ phase = "filter"
    /\ verdict' = meetsMinValue(event)
    /\ phase' = "filtered"
    /\ UNCHANGED <<parsed, txTrades, event, pending, history, trades, combined, ledger, fetched, response, page,
                   chain, lastSignature, retry, home>>

SpecFilter == InitFilter /\ [][Filter]_vars

\* --- combineRelatedTrades on one list
InitStitch ==
    /\ phase = "stitch"
    /\ \E n \in 0..MaxEvents : \E c \in [1..n -> StitchShapes \X StitchTimes] :
            trades = StitchInput(c)
    /\ Idle({"trades"})

Combine ==
    /\ phase = "stitch"
    /\ combined' = StitchRun(trades)
    /\ phase' = "stitched"
    /\ UNCHANGED <<parsed, txTrades, event, verdict, pending, history, trades, ledger,
                   fetched, response, page,
                   chain, lastSignature, retry, home>>

SpecStitch == InitStitch /\ [][Combine]_vars

\* --- processTrades on one list
InitAggregate ==
    /\ phase = "aggregate"
    /\ \E n \in 0..MaxTrades : \E c \in [1..n -> AggShapes \X AggTxs] :
            trades = AggInput(c)
    /\ Idle({"trades"})

Process ==
    /\ phase = "aggregate"
    /\ ledger' = processTrades(trades)
    /\ phase' = "aggregated"
    /\ UNCHANGED <<parsed, txTrades, event, verdict, pending, history, trades, combined,
                   fetched, response, page,
                   chain, lastSignature, retry, home>>

SpecAggregate == InitAggregate /\ [][Process]_vars

\* --- the analyze request (POST), from the fetched signatures on, and the
\* page showing the response
InitAnalyze ==
    /\ phase = "fetched"
    /\ \E n \in 0..MaxTxs : \E c \in [1..n -> PipeShapes \X PipeTimes], r \in DateRanges :
            fetched = [allSignatures |-> PipeInput(c),
                       startTimestamp |-> r[1], endTimestamp |-> r[2]]
    /\ Idle({"fetched"})

\* the callback without the test for an unknown time: null compares as 0
InDateRange_nullIsZero(s, startTimestamp, endTimestamp) ==
    LET t == IF s.blockTime = Null THEN 0 ELSE s.blockTime[1]
    IN  IF startTimestamp # Null /\ t < startTimestamp[1] THEN FALSE
        ELSE IF endTimestamp # Null /\ t > endTimestamp[1] THEN FALSE
        ELSE TRUE

\* the callback of allSignatures.filter
InDateRange(s, startTimestamp, endTimestamp) ==
    IF s.blockTime = Null THEN TRUE
    ELSE IF startTimestamp # Null /\ s.blockTime[1] < startTimestamp[1] THEN FALSE
    ELSE IF endTimestamp # Null /\ s.blockTime[1] > endTimestamp[1] THEN FALSE
    ELSE TRUE

\* signaturesToParse
SignaturesToParse(allSignatures, startTimestamp, endTimestamp) ==
    IF startTimestamp # Null \/ endTimestamp # Null
    THEN SelectSeq(allSignatures, LAMBDA s : InDateRange(s, startTimestamp, endTimestamp))
    ELSE allSignatures

FilterByDate ==
    /\ phase = "fetched"
    /\ pending' = SignaturesToParse(fetched.allSignatures,
                                    fetched.startTimestamp, fetched.endTimestamp)
    /\ phase' = "parsing"
    /\ UNCHANGED <<parsed, txTrades, event, verdict, history, trades, combined, ledger,
                   fetched, response, page,
                   chain, lastSignature, retry, home>>

RECURSIVE ParseAll(_, _)
\* for (let j = 0; j < batch.length; j++): trades.push(...txTrades.filter(meetsMinValue))
ParseAll(acc, batch) ==
    IF batch = <<>> THEN acc
    ELSE ParseAll(acc \o SelectSeq(extractTradesFromTx(Head(batch).signature, Wallet,
                                                       Head(batch).parsed),
                                   meetsMinValue),
                  Tail(batch))

\* one round of the parsing loop: the next CONCURRENCY signatures
ParseBatch ==
    /\ phase = "parsing"
    /\ pending # <<>>
    /\ LET n == IF Len(pending) < CONCURRENCY THEN Len(pending) ELSE CONCURRENCY
           batch == SubSeq(pending, 1, n)
       IN  /\ trades' = ParseAll(trades, batch)
           /\ history' = history \o batch
           /\ pending' = SubSeq(pending, n + 1, Len(pending))
    /\ UNCHANGED <<phase, parsed, txTrades, event, verdict, combined, ledger, fetched, response, page,
                   chain, lastSignature, retry, home>>

\* after the loop: combineRelatedTrades, then processTrades, then the response
Respond ==
    /\ phase = "parsing"
    /\ pending = <<>>
    /\ combined' = StitchRun(trades)
    /\ ledger' = processTrades(combined'.output)
    /\ response' = [trades |-> combined'.output,
                    unifiedTrades |-> ledger'.unifiedTrades,
                    solTransactions |-> ledger'.solTransactions,
                    totalCount |-> Len(combined'.output),
                    totalTransactions |-> Len(history),
                    totalPnl |-> TotalPnl(ledger'.unifiedTrades),
                    totalDeposited |-> ledger'.totalDeposited,
                    totalWithdrawn |-> ledger'.totalWithdrawn,
                    totalCashback |-> ledger'.totalCashback]
    /\ phase' = "responded"
    /\ UNCHANGED <<parsed, txTrades, event, verdict, pending, history, trades,
                   fetched, page,
                   chain, lastSignature, retry, home>>

\* the page renders the response: the Net Flow of each version of the page
Render ==
    /\ phase = "responded"
    /\ page' = [part_000 |-> NetFlowCard(response), part_001 |-> netFlow(response)]
    /\ phase' = "rendered"
    /\ UNCHANGED <<parsed, txTrades, event, verdict, pending, history, trades, combined,
                   ledger, fetched, response,
                   chain, lastSignature, retry, home>>

NextAnalyze == FilterByDate \/ ParseBatch \/ Respond \/ Render

SpecAnalyze == InitAnalyze /\ [][NextAnalyze]_vars

\* --- the fetch loop of POST over the signatures the node holds
\* <<shape, time>> of a signature of the chain
ChainKinds ==
    {<<"native_in", 120>>, <<"native_in", 104>>, <<"native_in", 100>>, <<"untimed", 100>>}

\* the signatures with a known block time come newest first
NewestFirst(list) ==
    \A a, b \in 1..Len(list) :
        (a < b /\ list[a].blockTime # Null /\ list[b].blockTime # Null) =>
            list[a].blockTime[1] >= list[b].blockTime[1]

\* the start of the date range: not given, or one of two days
StartTimestamps == {Null, Some(104), Some(120)}

InitFetch ==
    /\ phase = "fetching"
    /\ \E n \in 0..MaxChain : \E c \in [1..n -> ChainKinds] :
            /\ NewestFirst(PipeInput(c))
            /\ chain = PipeInput(c)
    /\ \E start \in StartTimestamps :
            fetched = [allSignatures |-> <<>>, startTimestamp |-> start,
                       endTimestamp |-> Null]
    /\ Idle({"chain", "fetched"})

\* connection.getSignaturesForAddress(pubkey, {limit, before}): the next
\* `limit` signatures after the one named by `before`
getSignaturesForAddress(held, limit, before) ==
    LET from == IF before = Null THEN 1
                ELSE 1 + (CHOOSE k \in 1..Len(held) : held[k].signature = before[1])
        to == IF from + limit - 1 < Len(held) THEN from + limit - 1 ELSE Len(held)
    IN  SubSeq(held, from, to)

\* the early stop that takes an unknown block time for 0
ReachedBeforePeriod_nullIsZero(withTime, startTimestamp) ==
    /\ startTimestamp # Null
    /\ Len(withTime) > 0
    /\ LET oldestInBatch == withTime[Len(withTime)]
           t == IF oldestInBatch.blockTime = Null THEN 0 ELSE oldestInBatch.blockTime[1]
       IN  t < startTimestamp[1]

\* the oldest signature of the batch is known to be before the period
ReachedBeforePeriod(withTime, startTimestamp) ==
    /\ startTimestamp # Null
    /\ Len(withTime) > 0
    /\ LET oldestInBatch == withTime[Len(withTime)]
       IN  /\ oldestInBatch.blockTime # Null
           /\ oldestInBatch.blockTime[1] < startTimestamp[1]

\* one round of while (true)
FetchBatch ==
    /\ phase = "fetching"
    /\ LET batch == getSignaturesForAddress(chain, SIGNATURES_PER_REQUEST, lastSignature)
       IN  IF Len(batch) = 0
           THEN /\ phase' = "fetched"
                /\ UNCHANGED <<fetched, lastSignature>>
           ELSE /\ fetched' = [fetched EXCEPT !.allSignatures = @ \o batch]
                /\ lastSignature' = Some(batch[Len(batch)].signature)
                /\ phase' = IF \/ ReachedBeforePeriod(batch, fetched.startTimestamp)
                               \/ Len(batch) < SIGNATURES_PER_REQUEST
                            THEN "fetched" ELSE "fetching"
    /\ UNCHANGED <<parsed, txTrades, event, verdict, pending, history, trades, combined,
                   ledger, response, page, chain, retry, home>>

SpecFetch == InitFetch /\ [][FetchBatch]_vars

\* the loop runs on: each round awaits one request and then goes on
SpecFetchFair == SpecFetch /\ WF_vars(FetchBatch)

\* --- one call of withRetry(fn) with the default maxRetries and baseDelay
\* a string as the sequence of its characters
M429 == <<"4", "2", "9">>
MRate == <<"r", "a", "t", "e">>
MTooMany == <<"H", "T", "T", "P", " ", "4", "2", "9">>
MGenerate == <<"g", "e", "n", "e", "r", "a", "t", "e">>
MTimeout == <<"t", "i", "m", "e", "o", "u", "t">>
M492 == <<"4", "9", "2">>

\* what one invocation of fn may settle with: a value, an Error with a
\* message, or a thrown value that is no Error
FnResults ==
    {[kind |-> "value", isError |-> FALSE, message |-> <<>>]}
    \cup {[kind |-> "throw", isError |-> TRUE, message |-> m] :
                m \in {M429, MRate, MTooMany, MGenerate, MTimeout, M492}}
    \cup {[kind |-> "throw", isError |-> FALSE, message |-> M429]}

DEFAULT_MAX_RETRIES == 3
DEFAULT_BASE_DELAY == 1000

\* String.prototype.includes
Includes(str, sub) ==
    \E i \in 0..(Len(str) - Len(sub)) : SubSeq(str, i + 1, i + Len(sub)) = sub

\* every thrown Error counts as a rate limit
isRateLimit_anyError(error) == error.isError

\* error instanceof Error &&
\*   (error.message.includes('429') || error.message.includes('rate'))
isRateLimit(error) ==
    /\ error.isError
    /\ Includes(error.message, M429) \/ Includes(error.message, MRate)

RECURSIVE Pow2(_)
\* Math.pow(2, attempt)
Pow2(n) == IF n = 0 THEN 1 ELSE 2 * Pow2(n - 1)

\* retry = [pc, attempt, maxRetries, baseDelay, log, outcome]; pc is "call"
\* (at `await fn()`), "waiting" (at `await delay(waitTime)`), "returned",
\* "thrown" (the rethrow of line 29) or "exhausted" (the throw of line 37);
\* log is the history kept for the properties: the result of every
\* invocation of fn and every wait, in order
InitRetry ==
    /\ phase = "retry"
    /\ retry = [pc |-> "call", attempt |-> 0, maxRetries |-> DEFAULT_MAX_RETRIES,
                baseDelay |-> DEFAULT_BASE_DELAY, log |-> <<>>, outcome |-> Null]
    /\ Idle({"retry"})

\* try { return await fn(); } catch (error) { ... }
Invoke ==
    /\ phase = "retry"
    /\ retry.pc = "call"
    /\ \E r \in FnResults :
        LET logged == Append(retry.log, [what |-> "call", result |-> r, ms |-> 0])
        IN  IF r.kind = "value"
            THEN retry' = [retry EXCEPT !.pc = "returned", !.log = logged,
                                        !.outcome = Some(r)]
            ELSE IF retry.attempt = retry.maxRetries \/ ~isRateLimit(r)
            THEN retry' = [retry EXCEPT !.pc = "thrown", !.log = logged,
                                        !.outcome = Some(r)]
            ELSE retry' = [retry EXCEPT
                            !.pc = "waiting",
                            !.log = Append(logged,
                                [what |-> "wait", result |-> r,
                                 ms |-> retry.baseDelay * Pow2(retry.attempt)])]
    /\ UNCHANGED <<phase, parsed, txTrades, event, verdict, pending, history, trades,
                   combined, ledger, fetched, response, page, chain, lastSignature, home>>

\* the delay is over: attempt++, then the test of the for loop
Resume ==
    /\ phase = "retry"
    /\ retry.pc = "waiting"
    /\ retry' = [retry EXCEPT
                    !.attempt = @ + 1,
                    !.pc = IF retry.attempt + 1 <= retry.maxRetries
                           THEN "call" ELSE "exhausted"]
    /\ UNCHANGED <<phase, parsed, txTrades, event, verdict, pending, history, trades,
                   combined, ledger, fetched, response, page, chain, lastSignature, home>>

NextRetry == Invoke \/ Resume

SpecRetry == InitRetry /\ [][NextRetry]_vars

\* fn settles and the timer of delay fires
SpecRetryFair == SpecRetry /\ WF_vars(Invoke) /\ WF_vars(Resume)

\* --- the page component Home (src/unnamed/part_001; part_000 is the same
\* with one address and `result` for `results`)
\* home = [addresses, loading, results, error, runs, started]: addresses is
\* what getAddressesToAnalyze() returns, loading / results / error are the
\* React state, runs the calls of handleAnalyze that await a fetch, each
\* [id, i, collected] (i is 1-based), started the number of calls so far
AddressLists == {<<>>, <<"walletA">>, <<"walletA", "walletB">>}

InitHome ==
    /\ phase = "home"
    /\ \E addresses \in AddressLists :
            home = [addresses |-> addresses, loading |-> FALSE, results |-> <<>>,
                    error |-> Null, runs |-> {}, started |-> 0]
    /\ Idle({"home"})

\* handleAnalyze up to its first await
StartRun(h) ==
    IF Len(h.addresses) = 0
    THEN [h EXCEPT !.error = Some("Enter a wallet address or add one or more to the list."),
                   !.started = @ + 1]
    ELSE [h EXCEPT !.error = Null,
                   !.results = <<>>,
                   !.loading = TRUE,
                   !.started = @ + 1,
                   !.runs = @ \cup {[id |-> h.started + 1, i |-> 1, collected |-> <<>>]}]

\* the Analyze button: onClick={handleAnalyze} disabled={loading}
ClickAnalyze ==
    /\ phase = "home"
    /\ home.started < MaxRuns
    /\ ~home.loading
    /\ home' = StartRun(home)
    /\ UNCHANGED <<phase, parsed, txTrades, event, verdict, pending, history, trades,
                   combined, ledger, fetched, response, page, chain, lastSignature, retry>>

\* the address field: onKeyDown={(e) => e.key === "Enter" && handleAnalyze()}
PressEnter ==
    /\ phase = "home"
    /\ home.started < MaxRuns
    /\ home' = StartRun(home)
    /\ UNCHANGED <<phase, parsed, txTrades, event, verdict, pending, history, trades,
                   combined, ledger, fetched, response, page, chain, lastSignature, retry>>

\* handleAnalyze of run r from the settling of its fetch to its next await
\* or its end; outcome is "ok", "invalid" (the body is no JSON), "failed"
\* (!res.ok) or "rejected" (fetch threw)
AfterFetch(h, r, outcome) ==
    LET data == [run |-> r.id, address |-> h.addresses[r.i]]
        others == h.runs \ {r}
    IN  IF outcome = "ok"
        THEN IF r.i < Len(h.addresses)
             THEN [h EXCEPT !.runs = others \cup
                        {[r EXCEPT !.i = @ + 1, !.collected = Append(@, data)]}]
             ELSE [h EXCEPT !.results = Append(r.collected, data),
                            !.loading = FALSE,
                            !.runs = others]
        ELSE [h EXCEPT !.error = Some(outcome),
                       !.results = r.collected,
                       !.loading = FALSE,
                       !.runs = others]

FetchSettles ==
    /\ phase = "home"
    /\ \E r \in home.runs, outcome \in {"ok", "invalid", "failed", "rejected"} :
            home' = AfterFetch(home, r, outcome)
    /\ UNCHANGED <<phase, parsed, txTrades, event, verdict, pending, history, trades,
                   combined, ledger, fetched, response, page, chain, lastSignature, retry>>

NextHome == ClickAnalyze \/ PressEnter \/ FetchSettles

SpecHome == InitHome /\ [][NextHome]_vars

\* --- every function, each on its own inputs
Init == InitExtract \/ InitFilter \/ InitStitch \/ InitAggregate \/ InitAnalyze \/ InitFetch
        \/ InitRetry \/ InitHome

Next ==
    \/ Extract \/ Filter \/ Combine \/ Process
    \/ FetchBatch \/ FilterByDate \/ ParseBatch \/ Respond \/ Render
    \/ Invoke \/ Resume
    \/ ClickAnalyze \/ PressEnter \/ FetchSettles

Spec == Init /\ [][Next]_vars

-----------------------------------------------------------------------------
(* Properties of the ValueFilter (SpecFilter) *)

\* the legs of an event that are in the native currency
NativeLegs(e) == {leg \in {e.from, e.to} : leg.mint = WSOL_MINT}

\* C6: every event in which neither leg is the native currency is kept (a
\* token-for-token swap, and a transfer of a token, whose other leg is the
\* null amount), and an event is dropped only when it has a native leg
\* below the threshold.
C6_TokenOnlyEventsKept ==
    phase = "filtered" =>
        /\ NativeLegs(event) = {} => verdict
        /\ ~verdict => \E leg \in NativeLegs(event) : leg.amount < MIN_TRADE_VALUE_SOL

\* C7: with the threshold 0.01, an event whose only native leg is below
\* 0.01 is dropped and an event with a native leg of at least 0.01 is kept;
\* the bound is inclusive; 0.005 is dropped and 0.02 is kept.
C7_ThresholdInclusive ==
    phase = "filtered" =>
        /\ (/\ NativeLegs(event) # {}
            /\ \A leg \in NativeLegs(event) : leg.amount < MIN_TRADE_VALUE_SOL) => ~verdict
        /\ (\E leg \in NativeLegs(event) : leg.amount >= MIN_TRADE_VALUE_SOL) => verdict
        /\ (\E leg \in NativeLegs(event) : leg.amount = 10) => verdict
        /\ (event.type # "swap" /\ \E leg \in NativeLegs(event) : leg.amount = 5) => ~verdict
        /\ (\E leg \in NativeLegs(event) : leg.amount = 20) => verdict

\* a deposit of exactly 0.01 SOL has been kept
C7_Witness ==
    /\ phase = "filtered"
    /\ event.type = "transfer_in"
    /\ event.to = TokenAmount(WSOL_MINT, 10)
    /\ verdict

-----------------------------------------------------------------------------
(* Properties of the SwapStitcher (SpecStitch) *)

\* the positions of the output made from index i of the sorted list
MadeFrom(run, i) == {k \in 1..Len(run.output) : i \in run.outOrigin[k]}

\* the transfer_ins not yet consumed when iteration i begins, at a time t'
\* with t <= t' <= t + window, t the time of sorted[i]
OpenInsFor(run, i) ==
    {j \in 1..Len(run.sorted) :
        /\ j # i
        /\ j \notin run.usedAt[i]
        /\ run.sorted[j].type = "transfer_in"
        /\ run.sorted[i].blockTime <= run.sorted[j].blockTime
        /\ run.sorted[j].blockTime <= run.sorted[i].blockTime + TIME_WINDOW_SECONDS}

Least(S) == CHOOSE x \in S : \A y \in S : x <= y

\* the list of the example: TransferOut{t=100, native 5.0}, TransferIn{t=104, tokenX 1000}
C1_Example ==
    <<StitchEvent("out_native", 100, "sig1"), StitchEvent("in_token", 104, "sig2")>>

\* C1: when a TransferOut is processed and the sorted list holds a
\* not-yet-consumed TransferIn within the window after it, the output holds
\* exactly one synthetic Swap for the pair (the first such TransferIn), with
\* the TransferOut's from, signature and timestamp and the TransferIn's to,
\* and neither leg is in the output as a transfer; the example gives exactly
\* one Swap{5.0 native -> 1000 tokenX}.
C1_OutMergesWithNextIn ==
    phase = "stitched" =>
        /\ \A i \in 1..Len(combined.sorted) :
            (/\ i \notin combined.usedAt[i]
             /\ combined.sorted[i].type = "transfer_out"
             /\ OpenInsFor(combined, i) # {}) =>
                LET j == Least(OpenInsFor(combined, i))
                    swaps == {k \in 1..Len(combined.output) : combined.outOrigin[k] = {i, j}}
                IN  /\ Cardinality(swaps) = 1
                    /\ MadeFrom(combined, i) = swaps
                    /\ MadeFrom(combined, j) = swaps
                    /\ \A k \in swaps :
                        /\ combined.output[k].type = "swap"
                        /\ combined.output[k].from = combined.sorted[i].from
                        /\ combined.output[k].to = combined.sorted[j].to
                        /\ combined.output[k].signature = combined.sorted[i].signature
                        /\ combined.output[k].blockTime = combined.sorted[i].blockTime
        /\ trades = C1_Example =>
            combined.output =
                <<Trade("sig1", 100, "swap", TokenAmount(WSOL_MINT, 5000),
                        TokenAmount(TokX, 1000000), <<>>)>>

\* a native TransferOut has been merged with a token TransferIn exactly one
\* window later, a swap lying between them
C1_Witness ==
    /\ phase = "stitched"
    /\ trades = <<StitchEvent("in_token", 110, "sig1"), StitchEvent("swap", 104, "sig2"),
                  StitchEvent("out_native", 100, "sig3")>>
    /\ Len(combined.output) = 2
    /\ combined.fwd = {<<1, 3>>}

\* C5: the output is every input Swap unchanged, every unmerged transfer
\* unchanged and one synthetic Swap per merged pair: every input event is
\* accounted for exactly once and the output is shorter than the input by
\* the number of merges.
C5_EveryEventOnce ==
    phase = "stitched" =>
        LET n == Len(trades)
            merges == combined.fwd \cup combined.bwd
        IN  /\ Len(combined.sorted) = n
            /\ \A v \in SeqToSet(trades) :
                Cardinality({k \in 1..n : trades[k] = v})
                    = Cardinality({k \in 1..n : combined.sorted[k] = v})
            /\ \A i \in 1..n : Cardinality(MadeFrom(combined, i)) = 1
            /\ \A k \in 1..Len(combined.output) :
                \/ \E i \in 1..n :
                    /\ combined.outOrigin[k] = {i}
                    /\ combined.output[k] = combined.sorted[i]
                    /\ \A m \in merges : i # m[1] /\ i # m[2]
                \/ \E m \in merges :
                    /\ combined.outOrigin[k] = {m[1], m[2]}
                    /\ combined.sorted[m[1]].type = "transfer_out"
                    /\ combined.sorted[m[2]].type = "transfer_in"
                    /\ combined.output[k] =
                        SyntheticSwap(combined.sorted[m[1]], combined.sorted[m[2]])
            /\ \A i \in 1..n : combined.sorted[i].type = "swap" =>
                \E k \in 1..Len(combined.output) :
                    combined.outOrigin[k] = {i} /\ combined.output[k] = combined.sorted[i]
            /\ Len(combined.output) = n - Cardinality(merges)
            /\ Len(combined.output) <= n

\* a full list with one merged pair and a transfer_in left alone
C5_Witness ==
    /\ phase = "stitched"
    /\ Len(trades) = MaxEvents
    /\ Cardinality(combined.fwd \cup combined.bwd) = 1
    /\ \E k \in 1..Len(combined.output) : combined.output[k].type = "transfer_in"

-----------------------------------------------------------------------------
(* Properties of the TradeAggregator (SpecAggregate) *)

\* the list processTrades was called with: the stitched list in the analyze
\* request, the drawn list otherwise
AggregatorInput == IF phase \in {"responded", "rendered"} THEN combined.output ELSE trades

\* the input in ascending-timestamp order, as processTrades walks it
SortedInput == Permute(AggregatorInput, AscPerm(BlockTimes(AggregatorInput)))

IsBuyOf(t, mint) ==
    t.type = "swap" /\ t.from.mint = WSOL_MINT /\ t.to.mint = mint /\ mint # WSOL_MINT

IsSellOf(t, mint) ==
    t.type = "swap" /\ t.to.mint = WSOL_MINT /\ t.from.mint = mint /\ mint # WSOL_MINT

\* the signed native amount of an event: Buy and Withdrawal negative, Sell,
\* Deposit and Reward positive, 0 for an event that moves no native currency
SignedNative(t) ==
    IF t.type = "swap" /\ t.from.mint = WSOL_MINT /\ t.to.mint # WSOL_MINT THEN -t.from.amount
    ELSE IF t.type = "swap" /\ t.to.mint = WSOL_MINT /\ t.from.mint # WSOL_MINT THEN t.to.amount
    ELSE IF t.type = "transfer_in" /\ t.to.mint = WSOL_MINT THEN t.to.amount
    ELSE IF t.type = "transfer_out" /\ t.from.mint = WSOL_MINT THEN -t.from.amount
    ELSE 0

IsNativeMovement(t) == SignedNative(t) # 0

\* the sum of the signed native amounts of the first k events of list
NativeSum(list, k) == SumSeq([h \in 1..k |-> SignedNative(list[h])])

\* every Buy/Sell leg and every NativeTransfer of a ledger, as
\* [src, type, signature, balance]
LedgerEntries(l) ==
    UNION {{[src |-> u.transactions[n].src, type |-> u.transactions[n].type,
             signature |-> u.transactions[n].signature,
             balance |-> u.transactions[n].solBalanceAfter] :
                n \in 1..Len(u.transactions)} : u \in SeqToSet(l.unifiedTrades)}
    \cup {[src |-> l.solTransactions[n].src, type |-> l.solTransactions[n].type,
           signature |-> l.solTransactions[n].signature,
           balance |-> l.solTransactions[n].solBalanceAfter] :
                n \in 1..Len(l.solTransactions)}

\* C3: the running balance attached to every leg and every NativeTransfer is
\* the sum of the signed native amounts of the movements processed up to
\* and including it, also when several events share one transaction id.
C3_BalanceIsCumulative ==
    phase \in {"aggregated", "responded"} =>
        \A e \in LedgerEntries(ledger) : e.balance = NativeSum(SortedInput, e.src)

\* C4: the running balance attached to the native movement processed last
\* equals the sum of all signed native deltas of the timeline.
C4_LastBalanceIsTotal ==
    phase = "aggregated" =>
        LET input == SortedInput
            moves == {k \in 1..Len(input) : IsNativeMovement(input[k])}
        IN  moves # {} =>
                LET last == CHOOSE k \in moves : \A h \in moves : h <= k
                    at == {e \in LedgerEntries(ledger) : e.src = last}
                IN  /\ Cardinality(at) = 1
                    /\ \A e \in at : e.balance = NativeSum(input, Len(input))

\* the last movement shares its signature with an earlier one, whose
\* attached balance is therefore not its own, and the total is not zero
C4_Witness ==
    /\ phase = "aggregated"
    /\ Len(trades) = MaxTrades
    /\ \E e, f \in LedgerEntries(ledger) :
        /\ e.src < f.src
        /\ e.signature = f.signature
        /\ \A g \in LedgerEntries(ledger) : g.src <= f.src
        /\ e.balance # NativeSum(SortedInput, e.src)
        /\ f.balance = NativeSum(SortedInput, Len(SortedInput))
        /\ f.balance # 0

\* the mints bought or sold for native currency in the list
TradedMints(list) ==
    {m \in {list[k].from.mint : k \in 1..Len(list)} \cup {list[k].to.mint : k \in 1..Len(list)} :
        \E k \in 1..Len(list) : IsBuyOf(list[k], m) \/ IsSellOf(list[k], m)}

\* C10: for every TokenPosition, totalSpent and totalReceived are the sums
\* of the native amounts of its Buy and Sell legs, totalAcquired and
\* totalDisposed the sums of their asset amounts, realizedPnl is
\* totalReceived - totalSpent, and every Buy or Sell of the token in the
\* input is in the position's legs exactly once.
C10_PositionTotals ==
    phase = "aggregated" =>
        LET input == SortedInput
            traded == TradedMints(input)
        IN
        /\ \A u \in SeqToSet(ledger.unifiedTrades) :
            LET legs == u.transactions
                sum(type, amt(_)) ==
                    SumSeq([n \in 1..Len(legs) |->
                                IF legs[n].type = type THEN amt(legs[n]) ELSE 0])
                sol(tx) == tx.solAmount
                tok(tx) == tx.tokenAmount
                mine == {k \in 1..Len(input) :
                            \/ IsBuyOf(input[k], u.tokenMint)
                            \/ IsSellOf(input[k], u.tokenMint)}
            IN  /\ u.totalSolSpent = sum("buy", sol)
                /\ u.totalSolReceived = sum("sell", sol)
                /\ u.totalTokensBought = sum("buy", tok)
                /\ u.totalTokensSold = sum("sell", tok)
                /\ u.pnl = u.totalSolReceived - u.totalSolSpent
                /\ Len(legs) = Cardinality(mine)
                /\ {legs[n].src : n \in 1..Len(legs)} = mine
                /\ \A n \in 1..Len(legs) :
                    LET t == input[legs[n].src]
                    IN  /\ legs[n].signature = t.signature
                        /\ legs[n].blockTime = t.blockTime
                        /\ IsBuyOf(t, u.tokenMint) =>
                            /\ legs[n].type = "buy"
                            /\ legs[n].solAmount = t.from.amount
                            /\ legs[n].tokenAmount = t.to.amount
                        /\ IsSellOf(t, u.tokenMint) =>
                            /\ legs[n].type = "sell"
                            /\ legs[n].solAmount = t.to.amount
                            /\ legs[n].tokenAmount = t.from.amount
        /\ \A m \in traded :
            Cardinality({n \in 1..Len(ledger.unifiedTrades) :
                            ledger.unifiedTrades[n].tokenMint = m}) = 1
        /\ \A u \in SeqToSet(ledger.unifiedTrades) : u.tokenMint \in traded

\* a position of two buys and one sell: 4.0 spent, 3.0 received, PNL -1.0
C10_Witness ==
    /\ phase = "aggregated"
    /\ \E u \in SeqToSet(ledger.unifiedTrades) :
        /\ Len(u.transactions) = 3
        /\ u.totalSolSpent = 4000
        /\ u.totalSolReceived = 3000
        /\ u.pnl = -1000

-----------------------------------------------------------------------------
(* Properties of the BalanceDeltaExtractor (SpecExtract) *)

\* C8: all emitted events are Swaps iff outs and ins are both non-empty,
\* max(|outs|, |ins|) of them; with only outs there is one TransferOut per
\* out, with only ins one TransferIn per in; every event carries the
\* transaction's id and timestamp (0 for a null timestamp).
C8_KindFollowsOutsAndIns ==
    phase = "extracted" =>
        LET d == ExtractDeltas(Wallet, parsed)
            n == Len(txTrades)
        IN  /\ (Len(d.outs) > 0 /\ Len(d.ins) > 0) =>
                /\ n = Max2(Len(d.outs), Len(d.ins))
                /\ \A i \in 1..n : txTrades[i].type = "swap"
            /\ (Len(d.outs) > 0 /\ Len(d.ins) = 0) =>
                /\ n = Len(d.outs)
                /\ \A i \in 1..n :
                    /\ txTrades[i].type = "transfer_out"
                    /\ txTrades[i].from = d.outs[i]
                    /\ txTrades[i].to = NullAmount
            /\ (Len(d.ins) > 0 /\ Len(d.outs) = 0) =>
                /\ n = Len(d.ins)
                /\ \A i \in 1..n :
                    /\ txTrades[i].type = "transfer_in"
                    /\ txTrades[i].to = d.ins[i]
                    /\ txTrades[i].from = NullAmount
            /\ (Len(d.outs) = 0 /\ Len(d.ins) = 0) => n = 0
            /\ \A i \in 1..n :
                /\ txTrades[i].type = "swap" <=> (Len(d.outs) > 0 /\ Len(d.ins) > 0)
                /\ txTrades[i].signature = "sig1"
                /\ txTrades[i].blockTime =
                    IF parsed[1].blockTime = Null THEN 0 ELSE parsed[1].blockTime[1]

\* two outs and one in have given two swaps
C8_Witness ==
    /\ phase = "extracted"
    /\ Len(ExtractDeltas(Wallet, parsed).outs) = 2
    /\ Len(ExtractDeltas(Wallet, parsed).ins) = 1
    /\ Len(txTrades) = 2
    /\ txTrades[2].type = "swap"

\* the token balance entries of the wallet: those naming it as owner, and
\* those without owner at the wallet's account index
WalletEntries(tx, entries) ==
    SelectSeq(entries, LAMBDA e :
        \/ e.owner = Wallet
        \/ e.owner = None /\ e.accountIndex = FindIndex(tx.accountKeys, Wallet))

EntryValues(entries, mint) ==
    [k \in 1..Len(entries) |->
        IF entries[k].mint = mint
        THEN parseTokenAmount(entries[k].amount, entries[k].decimals) ELSE 0]

\* the wallet's delta of one mint: what its accounts hold after minus before
WalletTokenDelta(tx, mint) ==
    SumSeq(EntryValues(WalletEntries(tx, tx.meta[1].postTokenBalances), mint))
        - SumSeq(EntryValues(WalletEntries(tx, tx.meta[1].preTokenBalances), mint))

WalletNativeDelta(tx) ==
    BalanceAt(tx.meta[1].postBalances, FindIndex(tx.accountKeys, Wallet))
        - BalanceAt(tx.meta[1].preBalances, FindIndex(tx.accountKeys, Wallet))

\* every mint of the drawn transactions
AllMints == {WSOL_MINT, TokX, TokY, TokZ, TokW}

NoDeltaAtAll(tx) ==
    /\ WalletNativeDelta(tx) = 0
    /\ \A mint \in AllMints : WalletTokenDelta(tx, mint) = 0

-----------------------------------------------------------------------------
(* Properties of the analyze request (SpecAnalyze) *)

EventsOf(h) == extractTradesFromTx(h.signature, Wallet, h.parsed)

\* transaction a emits one native TransferOut of at least the minimum value
\* and transaction b one TransferIn of a token within the window after it,
\* and no other transaction of the history emits an event
SplitTrade(a, b) ==
    LET ea == EventsOf(history[a])
        eb == EventsOf(history[b])
    IN  /\ a # b
        /\ Len(ea) = 1
        /\ ea[1].type = "transfer_out"
        /\ ea[1].from.mint = WSOL_MINT
        /\ ea[1].from.amount >= MIN_TRADE_VALUE_SOL
        /\ Len(eb) = 1
        /\ eb[1].type = "transfer_in"
        /\ eb[1].to.mint # WSOL_MINT
        /\ ea[1].blockTime <= eb[1].blockTime
        /\ eb[1].blockTime <= ea[1].blockTime + TIME_WINDOW_SECONDS
        /\ \A c \in 1..Len(history) : c \notin {a, b} => EventsOf(history[c]) = <<>>

\* C2: end to end, a trade split across two transactions (a native
\* TransferOut of at least the minimum value, then within the window a
\* TransferIn of a token) is in the Ledger as one Buy leg of the token's
\* position and not as a Withdrawal.
C2_SplitTradeIsOneBuy ==
    phase = "responded" =>
        \A a, b \in 1..Len(history) :
            SplitTrade(a, b) =>
                LET out == EventsOf(history[a])[1]
                    inn == EventsOf(history[b])[1]
                IN  /\ \E u \in SeqToSet(ledger.unifiedTrades) :
                        /\ u.tokenMint = inn.to.mint
                        /\ Len(u.transactions) = 1
                        /\ u.transactions[1].type = "buy"
                        /\ u.transactions[1].signature = out.signature
                        /\ u.transactions[1].solAmount = out.from.amount
                        /\ u.transactions[1].tokenAmount = inn.to.amount
                    /\ \A n \in 1..Len(ledger.solTransactions) :
                        ledger.solTransactions[n].type # "withdrawal"

-----------------------------------------------------------------------------
(* More properties of the TradeAggregator (SpecAggregate) *)

\* C11: every TokenPosition has remainingQuantity =
\* max(0, totalAcquired - totalDisposed) and is fully closed (realized)
\* iff remainingQuantity = 0, also when it sold more than it bought and
\* when it has Sell legs only.
C11_RemainingAndClosed ==
    phase = "aggregated" =>
        \A u \in SeqToSet(ledger.unifiedTrades) :
            /\ u.tokensRemaining =
                IF u.totalTokensBought - u.totalTokensSold > 0
                THEN u.totalTokensBought - u.totalTokensSold ELSE 0
            /\ u.realized <=> u.tokensRemaining = 0

\* one position sold more than it bought, another is still open
C11_Witness ==
    /\ phase = "aggregated"
    /\ \E u, w \in SeqToSet(ledger.unifiedTrades) :
        /\ u.totalTokensSold > u.totalTokensBought
        /\ u.realized
        /\ u.tokensRemaining = 0
        /\ w.totalTokensBought > w.totalTokensSold
        /\ ~w.realized
        /\ w.tokensRemaining > 0

\* the fraction f is the number a / b (b > 0); f may be a / b itself or
\* a / b with a factor up to 100 taken out of both
IsQuotient(f, a, b) ==
    /\ f.den > 0
    /\ \E k \in 1..100 : f.num * k = a /\ f.den * k = b

\* the list of the example: one Buy of 100 units for 2.0 native, then one
\* Sell of 100 units for 3.0 native
C12_Example ==
    /\ Len(SortedInput) = 2
    /\ IsBuyOf(SortedInput[1], TokX)
    /\ SortedInput[1].from.amount = 2000 /\ SortedInput[1].to.amount = 100000
    /\ IsSellOf(SortedInput[2], TokX)
    /\ SortedInput[2].from.amount = 100000 /\ SortedInput[2].to.amount = 3000

\* C12: for every TokenPosition pnlPercent = realizedPnl / totalSpent * 100
\* when totalSpent > 0 and 0 when totalSpent = 0; a Buy of 100 units for 2.0
\* then a Sell of 100 units for 3.0 gives realizedPnl 1.0, pnlPercent 50,
\* fully closed, nothing remaining.
C12_PnlPercent ==
    phase = "aggregated" =>
        /\ \A u \in SeqToSet(ledger.unifiedTrades) :
            /\ u.totalSolSpent > 0 => IsQuotient(u.pnlPercent, u.pnl * 100, u.totalSolSpent)
            /\ u.totalSolSpent = 0 => u.pnlPercent.num = 0 /\ u.pnlPercent.den > 0
        /\ C12_Example =>
            /\ Len(ledger.unifiedTrades) = 1
            /\ ledger.unifiedTrades[1].pnl = 1000
            /\ ledger.unifiedTrades[1].pnlPercent.num
                    = 50 * ledger.unifiedTrades[1].pnlPercent.den
            /\ ledger.unifiedTrades[1].realized
            /\ ledger.unifiedTrades[1].tokensRemaining = 0

\* the example has been aggregated
C12_Witness ==
    /\ phase = "aggregated"
    /\ C12_Example
    /\ ledger.unifiedTrades[1].pnl = 1000

\* a position with Sell legs only has been given the percentage 0
C12_WitnessNothingSpent ==
    /\ phase = "aggregated"
    /\ \E u \in SeqToSet(ledger.unifiedTrades) :
        u.totalSolSpent = 0 /\ u.totalSolReceived > 0 /\ u.pnlPercent.num = 0

\* the NativeTransfers of the ledger made from the event at index k
TransfersOf(k) ==
    {n \in 1..Len(ledger.solTransactions) : ledger.solTransactions[n].src = k}

NamesRewardAddress(t) ==
    \E a \in 1..Len(t.involvedAddresses) : t.involvedAddresses[a] = CASHBACK_ADDRESS

\* C13: a native TransferIn becomes one NativeTransfer, a Reward (cashback)
\* if any of its counterparty addresses is the reserved reward address and
\* a Deposit otherwise; a native TransferOut becomes one Withdrawal, a
\* matching address only attaching a label.
C13_TransferClassification ==
    phase = "aggregated" =>
        LET input == SortedInput
        IN
        /\ \A k \in 1..Len(input) :
            LET t == input[k]
            IN  /\ (t.type = "transfer_in" /\ t.to.mint = WSOL_MINT) =>
                    /\ Cardinality(TransfersOf(k)) = 1
                    /\ \A n \in TransfersOf(k) :
                        /\ ledger.solTransactions[n].amount = t.to.amount
                        /\ ledger.solTransactions[n].signature = t.signature
                        /\ ledger.solTransactions[n].type =
                            IF NamesRewardAddress(t) THEN "cashback" ELSE "deposit"
                /\ (t.type = "transfer_out" /\ t.from.mint = WSOL_MINT) =>
                    /\ Cardinality(TransfersOf(k)) = 1
                    /\ \A n \in TransfersOf(k) :
                        /\ ledger.solTransactions[n].amount = t.from.amount
                        /\ ledger.solTransactions[n].signature = t.signature
                        /\ ledger.solTransactions[n].type = "withdrawal"
                        /\ NamesRewardAddress(t) =>
                            ledger.solTransactions[n].label = "CASHBACK"
                /\ ~(t.type = "transfer_in" /\ t.to.mint = WSOL_MINT)
                        /\ ~(t.type = "transfer_out" /\ t.from.mint = WSOL_MINT)
                    => TransfersOf(k) = {}
        /\ \A n \in 1..Len(ledger.solTransactions) :
            ledger.solTransactions[n].src \in 1..Len(input)

\* a Reward whose reward address is not the first counterparty, a Deposit,
\* and a Withdrawal to the reward address with its label
C13_Witness ==
    /\ phase = "aggregated"
    /\ \E a, b, c \in 1..Len(ledger.solTransactions) :
        /\ ledger.solTransactions[a].type = "cashback"
        /\ SortedInput[ledger.solTransactions[a].src].involvedAddresses[1] # CASHBACK_ADDRESS
        /\ ledger.solTransactions[b].type = "deposit"
        /\ ledger.solTransactions[c].type = "withdrawal"
        /\ ledger.solTransactions[c].label = "CASHBACK"

\* what the loop over sortedTrades has collected
LoopResult == AggLoop(SortedInput, AggStart, 1)

\* the legs of the ledger made from the event at index k, as <<position, leg>>
LegsOf(k) ==
    {pl \in UNION {{<<p, n>> : n \in 1..Len(ledger.unifiedTrades[p].transactions)} :
                        p \in 1..Len(ledger.unifiedTrades)} :
        ledger.unifiedTrades[pl[1]].transactions[pl[2]].src = k}

\* C15: a Swap yields a Buy leg for the to-token, lowering the running
\* balance by the native amount, iff from is native and to is not; a Sell
\* leg for the from-token, raising the running balance by the native
\* amount, iff to is native and from is not; any other Swap creates no leg,
\* no position and no change of the running balance.
C15_SwapLegs ==
    phase = "aggregated" =>
        LET input == SortedInput
            moves == LoopResult.allSolMovements
            MovementsOf(k) == {n \in 1..Len(moves) : moves[n].src = k}
        IN
        /\ \A k \in 1..Len(input) :
            LET t == input[k]
                fromNative == t.from.mint = WSOL_MINT
                toNative == t.to.mint = WSOL_MINT
            IN  t.type = "swap" =>
                    /\ (fromNative /\ ~toNative) =>
                        /\ Cardinality(LegsOf(k)) = 1
                        /\ \A pl \in LegsOf(k) :
                            /\ ledger.unifiedTrades[pl[1]].tokenMint = t.to.mint
                            /\ ledger.unifiedTrades[pl[1]].transactions[pl[2]].type = "buy"
                        /\ Cardinality(MovementsOf(k)) = 1
                        /\ \A n \in MovementsOf(k) : moves[n].change = -t.from.amount
                    /\ (toNative /\ ~fromNative) =>
                        /\ Cardinality(LegsOf(k)) = 1
                        /\ \A pl \in LegsOf(k) :
                            /\ ledger.unifiedTrades[pl[1]].tokenMint = t.from.mint
                            /\ ledger.unifiedTrades[pl[1]].transactions[pl[2]].type = "sell"
                        /\ Cardinality(MovementsOf(k)) = 1
                        /\ \A n \in MovementsOf(k) : moves[n].change = t.to.amount
                    /\ (fromNative <=> toNative) =>
                        /\ LegsOf(k) = {}
                        /\ MovementsOf(k) = {}
        /\ \A p \in 1..Len(ledger.unifiedTrades) :
            /\ Len(ledger.unifiedTrades[p].transactions) > 0
            /\ \A n \in 1..Len(ledger.unifiedTrades[p].transactions) :
                LET leg == ledger.unifiedTrades[p].transactions[n]
                IN  /\ leg.src \in 1..Len(input)
                    /\ input[leg.src].type = "swap"
                    /\ leg.type = "buy" <=> IsBuyOf(input[leg.src],
                                                    ledger.unifiedTrades[p].tokenMint)
                    /\ leg.type = "sell" <=> IsSellOf(input[leg.src],
                                                      ledger.unifiedTrades[p].tokenMint)

\* a Buy, a token-to-token Swap and a native-to-native Swap have been
\* aggregated: one position with one leg, one change of the balance
C15_Witness ==
    /\ phase = "aggregated"
    /\ Len(SortedInput) = 3
    /\ \E a, b, c \in 1..3 :
        /\ IsBuyOf(SortedInput[a], TokX)
        /\ SortedInput[b].type = "swap"
        /\ SortedInput[b].from.mint = TokX /\ SortedInput[b].to.mint = TokY
        /\ SortedInput[c].type = "swap"
        /\ SortedInput[c].from.mint = WSOL_MINT /\ SortedInput[c].to.mint = WSOL_MINT
    /\ Len(ledger.unifiedTrades) = 1
    /\ Len(ledger.unifiedTrades[1].transactions) = 1
    /\ Len(LoopResult.allSolMovements) = 1

-----------------------------------------------------------------------------
(* More properties of the SwapStitcher (SpecStitch) *)

\* C18: the list combineRelatedTrades returns is sorted by timestamp in
\* non-increasing order, whatever the order of the input list.
C18_OutputNewestFirst ==
    phase = "stitched" =>
        \A i, j \in 1..Len(combined.output) :
            i < j => combined.output[i].blockTime >= combined.output[j].blockTime

\* an input in ascending order, with three different times and nothing to
\* merge, has been returned
C18_Witness ==
    /\ phase = "stitched"
    /\ Len(trades) = 3
    /\ trades[1].blockTime < trades[2].blockTime
    /\ trades[2].blockTime < trades[3].blockTime
    /\ Len(combined.output) = 3
    /\ combined.output[1] = trades[3]

-----------------------------------------------------------------------------
(* More properties of the analyze request (SpecAnalyze) *)

Answered == phase \in {"responded", "rendered"}

\* C14: totalDeposited is the sum of the Deposit amounts only, totalCashback
\* the sum of the Reward amounts, totalWithdrawn the sum of the Withdrawal
\* amounts; totalDeposited + totalCashback is the sum of all native
\* TransferIn amounts of the input, no amount is in two totals, and totalPnl
\* is the sum of the positions' realizedPnl.
C14_Totals ==
    Answered =>
        LET \* the sum of amount(x) over the elements x of list with test(x)
            SumWhere(list, test(_), amount(_)) ==
                SumSeq([n \in 1..Len(list) |->
                            IF test(list[n]) THEN amount(list[n]) ELSE 0])
            input == SortedInput
            transfers == response.solTransactions
            amountOf(x) == x.amount
            toAmount(t) == t.to.amount
            fromAmount(t) == t.from.amount
            pnlOf(u) == u.pnl
            nativeIn(t) == t.type = "transfer_in" /\ t.to.mint = WSOL_MINT
            nativeOut(t) == t.type = "transfer_out" /\ t.from.mint = WSOL_MINT
            deposit(x) == x.type = "deposit"
            reward(x) == x.type = "cashback"
            withdrawal(x) == x.type = "withdrawal"
            any(x) == TRUE
        IN  /\ response.totalDeposited = SumWhere(transfers, deposit, amountOf)
            /\ response.totalCashback = SumWhere(transfers, reward, amountOf)
            /\ response.totalWithdrawn = SumWhere(transfers, withdrawal, amountOf)
            /\ response.totalDeposited + response.totalCashback
                    = SumWhere(input, nativeIn, toAmount)
            /\ response.totalWithdrawn = SumWhere(input, nativeOut, fromAmount)
            /\ response.totalDeposited + response.totalCashback + response.totalWithdrawn
                    = SumWhere(transfers, any, amountOf)
            /\ response.totalPnl = SumWhere(response.unifiedTrades, any, pnlOf)
            /\ response.totalDeposited = ledger.totalDeposited
            /\ response.totalCashback = ledger.totalCashback
            /\ response.totalWithdrawn = ledger.totalWithdrawn

\* a Deposit and a Reward have been counted, each in its own total
C14_Witness ==
    /\ Answered
    /\ response.totalDeposited = 300
    /\ response.totalCashback = 40
    /\ Len(response.solTransactions) = 2

\* C16: for every Ledger the request returns, Net Flow =
\* totalDeposited + totalCashback - totalWithdrawn + totalPnl; it equals the
\* final running native balance of processTrades, and it is the Net Flow
\* every version of the page shows.
C16_NetFlow ==
    phase = "rendered" =>
        LET input == SortedInput
            net == response.totalDeposited + response.totalCashback
                        - response.totalWithdrawn + response.totalPnl
        IN  /\ net = NativeSum(input, Len(input))
            /\ page.part_001 = net
            /\ page.part_000 = net

\* the first two parts of C16 alone: the sum of the four totals is the final
\* running balance, and the page of part_001 shows it
C16_NetFlowOfCurrentPage ==
    phase = "rendered" =>
        LET input == SortedInput
            net == response.totalDeposited + response.totalCashback
                        - response.totalWithdrawn + response.totalPnl
        IN  /\ net = NativeSum(input, Len(input))
            /\ page.part_001 = net

\* what the filter of the date range should keep: an unknown time, or a
\* time within [start, end] (a missing end of the range excludes nothing)
WithinRange(s) ==
    \/ s.blockTime = Null
    \/ /\ fetched.startTimestamp # Null => s.blockTime[1] >= fetched.startTimestamp[1]
       /\ fetched.endTimestamp # Null => s.blockTime[1] <= fetched.endTimestamp[1]

\* C17: the signatures that are parsed are exactly the fetched signatures
\* whose block time is null or lies within [start, end]; a signature with a
\* null time is never excluded, one with a known time outside the range is
\* never parsed.
C17_DateRange ==
    /\ phase = "parsing" =>
        history \o pending = SelectSeq(fetched.allSignatures, WithinRange)
    /\ Answered =>
        /\ history = SelectSeq(fetched.allSignatures, WithinRange)
        /\ response.totalTransactions = Len(history)

\* a range was given; the signature without time was parsed, the one before
\* the start of the range was not
C17_Witness ==
    /\ Answered
    /\ fetched.startTimestamp # Null
    /\ Len(fetched.allSignatures) = 2
    /\ Len(history) = 1
    /\ history[1].blockTime = Null
    /\ \E k \in 1..2 :
        /\ fetched.allSignatures[k].blockTime # Null
        /\ fetched.allSignatures[k].blockTime[1] < fetched.startTimestamp[1]

-----------------------------------------------------------------------------
(* The pairing of a multi-hop swap (SpecExtract) *)

\* outs and ins have been computed, both are non-empty, their lengths differ
UnevenSwap ==
    /\ phase = "extracted"
    /\ LET d == ExtractDeltas(Wallet, parsed)
       IN  ~d.empty /\ Len(d.outs) > 0 /\ Len(d.ins) > 0 /\ Len(d.outs) # Len(d.ins)

\* the i-th Swap pairs outs[i] with ins[i], and past the end of the shorter
\* list the last (useLast) or the first element of the shorter list is used
PairedWith(useLast) ==
    LET d == ExtractDeltas(Wallet, parsed)
        fill(list) == IF useLast THEN Len(list) ELSE 1
        outs == d.outs
        ins == d.ins
    IN  /\ Len(txTrades) = Max2(Len(outs), Len(ins))
        /\ \A i \in 1..Len(txTrades) :
            /\ txTrades[i].type = "swap"
            /\ txTrades[i].from = IF i <= Len(outs) THEN outs[i] ELSE outs[fill(outs)]
            /\ txTrades[i].to = IF i <= Len(ins) THEN ins[i] ELSE ins[fill(ins)]

\* C20 as stated: when outs and ins are both non-empty and of different
\* lengths, the i-th Swap pairs outs[i] with ins[i], and for every index past
\* the end of the shorter list the shorter list's last element is used as
\* the missing side.
C20_ShorterListsLast ==
    UnevenSwap => PairedWith(TRUE)

\* C20 amended: when outs and ins are both non-empty and of different
\* lengths, the i-th Swap pairs outs[i] with ins[i], and for every index past
\* the end of the shorter list the shorter list's first element is used as
\* the missing side.
C20_ShorterListsFirst ==
    UnevenSwap => PairedWith(FALSE)

\* three outs and two different ins: the third Swap needs an element of the
\* shorter list, whose first and last elements differ
C20_Witness ==
    /\ UnevenSwap
    /\ Len(txTrades) = 3
    /\ LET d == ExtractDeltas(Wallet, parsed)
       IN  /\ Len(d.outs) = 3
           /\ Len(d.ins) = 2
           /\ d.ins[1] # d.ins[2]
           /\ txTrades[3].from = d.outs[3]
           /\ txTrades[3].to = d.ins[1]

-----------------------------------------------------------------------------
(* More properties of the SwapStitcher (SpecStitch) *)

\* the pairs <<out, in>> of indices of the sorted list that were merged
Merges(run) == run.fwd \cup run.bwd

\* C21: each input event is consumed at most once: no event is a leg of two
\* synthetic Swaps and no event is both a leg of a synthetic Swap and passed
\* through as a transfer; the TransferIn merged with a TransferOut is the
\* first not-yet-consumed TransferIn after it in ascending time order, with
\* 0 <= t_in - t_out <= 10 s (exactly 10 s still merges, 11 s does not).
C21_ConsumedOnceNearestFirst ==
    phase = "stitched" =>
        LET sorted == combined.sorted
            merges == Merges(combined)
            legs(i) == {m \in merges : m[1] = i \/ m[2] = i}
        IN  /\ \A i \in 1..Len(sorted) :
                /\ Cardinality(legs(i)) <= 1
                /\ legs(i) # {} =>
                    ~ \E k \in 1..Len(combined.output) : combined.outOrigin[k] = {i}
            /\ \A m \in merges :
                LET o == m[1]
                    j == m[2]
                    unconsumedAfter ==
                        {h \in (o + 1)..Len(sorted) :
                            /\ h \notin combined.usedAt[o]
                            /\ sorted[h].type = "transfer_in"}
                    d == sorted[j].blockTime - sorted[o].blockTime
                IN  /\ sorted[o].type = "transfer_out"
                    /\ sorted[j].type = "transfer_in"
                    /\ o < j
                    /\ j \in unconsumedAfter
                    /\ \A h \in unconsumedAfter : j <= h
                    /\ 0 <= d /\ d <= 10
            /\ trades = <<StitchEvent("out_native", 100, "sig1"),
                          StitchEvent("in_token", 110, "sig2")>> =>
                    merges = {<<1, 2>>}
            /\ trades = <<StitchEvent("out_native", 100, "sig1"),
                          StitchEvent("in_token", 111, "sig2")>> =>
                    /\ merges = {}
                    /\ Len(combined.output) = 2

\* two TransferIns follow a TransferOut within the window: the first is
\* merged, the second passes through as a transfer
C21_Witness ==
    /\ phase = "stitched"
    /\ Len(trades) = 3
    /\ combined.sorted[1].type = "transfer_out"
    /\ combined.sorted[2].type = "transfer_in"
    /\ combined.sorted[3].type = "transfer_in"
    /\ combined.sorted[3].blockTime - combined.sorted[1].blockTime = 10
    /\ Merges(combined) = {<<1, 2>>}
    /\ \E k \in 1..Len(combined.output) : combined.outOrigin[k] = {3}

\* the TransferOuts at a later position of the sorted list than the
\* TransferIn at i, within the window of it
LaterOutsFor(run, i) ==
    {j \in (i + 1)..Len(run.sorted) :
        /\ run.sorted[j].type = "transfer_out"
        /\ run.sorted[j].blockTime - run.sorted[i].blockTime <= TIME_WINDOW_SECONDS}

\* C22: a TransferIn that comes before a TransferOut in the time-sorted list
\* (earlier timestamp, or equal timestamp and earlier position), the two
\* within the window and neither consumed by another merge, is merged with
\* that TransferOut into one synthetic Swap instead of both passing through
\* as transfers.
C22_InBeforeOutMerges ==
    phase = "stitched" =>
        \A i \in 1..Len(combined.sorted) : \A j \in LaterOutsFor(combined, i) :
            (/\ combined.sorted[i].type = "transfer_in"
             /\ \A m \in Merges(combined) : m[1] \notin {i, j} /\ m[2] \notin {i, j}) =>
                \E k \in 1..Len(combined.output) :
                    /\ combined.outOrigin[k] = {i, j}
                    /\ combined.output[k].type = "swap"

\* C23: the backward search of a TransferIn never finds a partner: when the
\* event at sorted index i is processed every index j < i is already marked
\* used, so every synthetic Swap of the output is produced by the forward
\* search of a TransferOut.
C23_BackwardSearchFindsNothing ==
    phase = "stitched" =>
        /\ \A i \in 1..Len(combined.sorted) : \A j \in 1..(i - 1) : j \in combined.usedAt[i]
        /\ combined.bwd = {}
        /\ \A k \in 1..Len(combined.output) :
            Cardinality(combined.outOrigin[k]) = 2 =>
                \E m \in combined.fwd : combined.outOrigin[k] = {m[1], m[2]}

\* the backward search ran past an unmerged TransferOut within the window
\* (a TransferOut of an earlier second, and a merge before it in the list)
C23_Witness ==
    /\ phase = "stitched"
    /\ Len(combined.sorted) = 3
    /\ combined.sorted[1].type = "transfer_out"
    /\ combined.sorted[2].type = "transfer_in"
    /\ combined.sorted[3].type = "transfer_in"
    /\ combined.sorted[3].blockTime - combined.sorted[1].blockTime <= TIME_WINDOW_SECONDS
    /\ 3 \notin combined.usedAt[3]
    /\ combined.fwd = {<<1, 2>>}
    /\ \E k \in 1..Len(combined.output) :
        combined.outOrigin[k] = {3} /\ combined.output[k].type = "transfer_in"

-----------------------------------------------------------------------------
(* Conservation of native currency over the analyze request (SpecAnalyze) *)

\* C24: the final running native balance, and therefore totalDeposited +
\* totalCashback - totalWithdrawn + totalPnl, equals the sum of the signed
\* native amounts of all events that passed the ValueFilter with native
\* currency on exactly one side; stitching never removes a native deposit
\* or withdrawal from the Ledger.
C24_NativeConserved ==
    Answered =>
        LET input == SortedInput
            filtered == trades
            total == NativeSum(filtered, Len(filtered))
            nativeIns == {k \in 1..Len(filtered) :
                            filtered[k].type = "transfer_in" /\ filtered[k].to.mint = WSOL_MINT}
            nativeOuts == {k \in 1..Len(filtered) :
                            filtered[k].type = "transfer_out" /\ filtered[k].from.mint = WSOL_MINT}
            received == {n \in 1..Len(response.solTransactions) :
                            response.solTransactions[n].type \in {"deposit", "cashback"}}
            withdrawn == {n \in 1..Len(response.solTransactions) :
                            response.solTransactions[n].type = "withdrawal"}
        IN  /\ NativeSum(input, Len(input)) = total
            /\ netFlow(response) = total
            /\ Cardinality(received) = Cardinality(nativeIns)
            /\ Cardinality(withdrawn) = Cardinality(nativeOuts)

-----------------------------------------------------------------------------
(* The native bucket and the token reconciliation (SpecExtract) *)

\* the extractor got past its early returns
Reconciled ==
    /\ phase = "extracted"
    /\ ~EarlyReturn(Wallet, parsed)

\* the amounts of list with the native-currency asset id
NativeAmounts(list) == SelectSeq(list, LAMBDA a : a.mint = WSOL_MINT)

\* the one native amount of magnitude |delta| on the side its sign says:
\* <<outs, ins>>
NativeBucket(delta) ==
    IF delta < 0 THEN <<(<<TokenAmount(WSOL_MINT, -delta)>>), <<>>>>
    ELSE <<<<>>, (<<TokenAmount(WSOL_MINT, delta)>>)>>

\* C25: if the wallet's wrapped-native token delta has magnitude above
\* 0.001 it is the native amount of the transaction and the raw native delta
\* is not used; otherwise the raw native delta is used if its magnitude is
\* above 0.001; if neither is, the transaction contributes no
\* native-currency amount to outs or ins.
C25_NativeBucket ==
    Reconciled =>
        LET d == ExtractDeltas(Wallet, parsed)
            wrapped == WalletTokenDelta(parsed[1], WSOL_MINT)
            raw == WalletNativeDelta(parsed[1])
            nativeOuts == NativeAmounts(d.outs)
            nativeIns == NativeAmounts(d.ins)
        IN  IF Abs(wrapped) > MIN_SOL_CHANGE
            THEN <<nativeOuts, nativeIns>> = NativeBucket(wrapped)
            ELSE IF Abs(raw) > MIN_SOL_CHANGE
            THEN IF raw < 0
                 THEN \E k \in 1..Len(nativeOuts) : nativeOuts[k].amount = -raw
                 ELSE \E k \in 1..Len(nativeIns) : nativeIns[k].amount = raw
            ELSE nativeOuts = <<>> /\ nativeIns = <<>>

\* the first two cases of C25 alone
C25_AboveThreshold ==
    Reconciled =>
        LET d == ExtractDeltas(Wallet, parsed)
            wrapped == WalletTokenDelta(parsed[1], WSOL_MINT)
            raw == WalletNativeDelta(parsed[1])
            nativeOuts == NativeAmounts(d.outs)
            nativeIns == NativeAmounts(d.ins)
        IN  IF Abs(wrapped) > MIN_SOL_CHANGE
            THEN <<nativeOuts, nativeIns>> = NativeBucket(wrapped)
            ELSE Abs(raw) > MIN_SOL_CHANGE =>
                    IF raw < 0
                    THEN \E k \in 1..Len(nativeOuts) : nativeOuts[k].amount = -raw
                    ELSE \E k \in 1..Len(nativeIns) : nativeIns[k].amount = raw

\* C26: for every transaction at most one amount with the native-currency
\* asset id is placed in outs and ins together (no event has native currency
\* on both sides, no two events of one transaction carry different native
\* amounts), and every native-currency amount emitted is greater than 0.001.
C26_OneNativeAmount ==
    Reconciled =>
        LET d == ExtractDeltas(Wallet, parsed)
            emitted == {txTrades[k].from : k \in 1..Len(txTrades)}
                            \cup {txTrades[k].to : k \in 1..Len(txTrades)}
            native == {a \in emitted : a.mint = WSOL_MINT}
        IN  /\ Len(NativeAmounts(d.outs)) + Len(NativeAmounts(d.ins)) <= 1
            /\ \A k \in 1..Len(txTrades) :
                ~(txTrades[k].from.mint = WSOL_MINT /\ txTrades[k].to.mint = WSOL_MINT)
            /\ Cardinality(native) <= 1
            /\ \A a \in native : a.amount > MIN_SOL_CHANGE

\* the amounts of list with asset id mint
AmountsOf(list, mint) == SelectSeq(list, LAMBDA a : a.mint = mint)

C27_WitnessByIndex ==
    /\ Reconciled
    /\ FindIndex(parsed[1].accountKeys, Wallet) = 1
    /\ Len(parsed[1].meta[1].postTokenBalances) = 2
    /\ parsed[1].meta[1].postTokenBalances[1].owner = None
    /\ parsed[1].meta[1].postTokenBalances[2].owner = Other
    /\ Len(parsed[1].meta[1].preTokenBalances) = 0
    /\ WalletTokenDelta(parsed[1], TokY) = 5000
    /\ WalletTokenDelta(parsed[1], TokX) = 0
    /\ Len(txTrades) = 1
    /\ txTrades[1].to = TokenAmount(TokY, 5000)

-----------------------------------------------------------------------------
(* The fetch loop (SpecFetchFair) *)

\* the signatures the loop has not fetched
Unfetched == SubSeq(chain, Len(fetched.allSignatures) + 1, Len(chain))

\* the loop has fetched the first signatures of the chain, in order
FetchedIsPrefix ==
    /\ Len(fetched.allSignatures) <= Len(chain)
    /\ fetched.allSignatures = SubSeq(chain, 1, Len(fetched.allSignatures))

\* a step that ends the loop ends it on an empty batch, on a batch shorter
\* than the page size, or on a batch whose oldest signature has a known
\* time before the start
StopsForAReason ==
    (phase = "fetching" /\ phase' = "fetched") =>
        LET got == Len(fetched'.allSignatures) - Len(fetched.allSignatures)
            oldest == fetched'.allSignatures[Len(fetched'.allSignatures)]
        IN  \/ got = 0 /\ Unfetched = <<>>
            \/ got > 0 /\ got < SIGNATURES_PER_REQUEST /\ Unfetched' = <<>>
            \/ /\ got > 0
               /\ fetched.startTimestamp # Null
               /\ oldest.blockTime # Null
               /\ oldest.blockTime[1] < fetched.startTimestamp[1]

\* after the loop no signature with a time at or after the start is left
\* unfetched; without a start nothing at all is left
NothingInPeriodLeft ==
    phase = "fetched" =>
        /\ FetchedIsPrefix
        /\ \A k \in 1..Len(Unfetched) :
            /\ fetched.startTimestamp # Null
            /\ Unfetched[k].blockTime # Null =>
                    Unfetched[k].blockTime[1] < fetched.startTimestamp[1]

\* C28: with a node that returns signatures newest-first, the fetch loop
\* stops only on an empty batch, on a batch shorter than the page size, or
\* when the oldest signature of a batch has a known time earlier than the
\* start; no signature with a time at or after the start is left unfetched
\* by the early stop; the loop terminates for every finite history.
C28_Pagination ==
    /\ [][StopsForAReason]_vars
    /\ []NothingInPeriodLeft
    /\ <>(phase = "fetched")

\* the loop stopped early after two full pages, the second of which has a
\* signature without time and ends before the start; one signature was
\* never asked for
C28_Witness ==
    /\ phase = "fetched"
    /\ fetched.startTimestamp # Null
    /\ Len(fetched.allSignatures) = 2 * SIGNATURES_PER_REQUEST
    /\ Len(Unfetched) = 1
    /\ \E k \in 1..Len(fetched.allSignatures) : fetched.allSignatures[k].blockTime = Null
    /\ \E k \in 1..Len(fetched.allSignatures) :
        /\ fetched.allSignatures[k].blockTime # Null
        /\ fetched.allSignatures[k].blockTime[1] >= fetched.startTimestamp[1]

-----------------------------------------------------------------------------
(* withRetry (SpecRetryFair) *)

\* the positions of the log at which fn was invoked
CallsOf(log) == {k \in 1..Len(log) : log[k].what = "call"}

\* a thrown value whose message contains '429' or 'rate'
MessageNamesRateLimit(r) ==
    /\ r.kind = "throw"
    /\ \E i \in 1..Len(r.message) :
        \/ i + 2 <= Len(r.message)
            /\ r.message[i] = "4" /\ r.message[i + 1] = "2" /\ r.message[i + 2] = "9"
        \/ i + 3 <= Len(r.message)
            /\ r.message[i] = "r" /\ r.message[i + 1] = "a"
            /\ r.message[i + 2] = "t" /\ r.message[i + 3] = "e"

\* what a state of withRetry must satisfy
RetryDiscipline ==
    phase = "retry" =>
        LET log == retry.log
            calls == CallsOf(log)
            last == log[Len(log)]
        IN  \* fn is invoked at most maxRetries + 1 times
            /\ Cardinality(calls) <= DEFAULT_MAX_RETRIES + 1
            \* a later invocation follows a wait of baseDelay * 2^attempt that
            \* follows a rate-limit failure
            /\ \A k \in calls : k > 1 =>
                /\ k >= 3
                /\ log[k - 1].what = "wait"
                /\ log[k - 1].ms =
                        DEFAULT_BASE_DELAY * Pow2(Cardinality({h \in calls : h < k}) - 1)
                /\ log[k - 2].what = "call"
                /\ MessageNamesRateLimit(log[k - 2].result)
            \* the first success is returned
            /\ \A k \in calls : log[k].result.kind = "value" =>
                /\ k = Len(log)
                /\ retry.pc = "returned"
                /\ retry.outcome = Some(log[k].result)
            /\ retry.pc = "returned" => log # <<>> /\ last.result.kind = "value"
            \* any other error, and a rate-limit error on the last attempt, is
            \* rethrown unchanged
            /\ \A k \in calls :
                (/\ log[k].result.kind = "throw"
                 /\ \/ ~MessageNamesRateLimit(log[k].result)
                    \/ Cardinality({h \in calls : h <= k}) = DEFAULT_MAX_RETRIES + 1) =>
                    /\ k = Len(log)
                    /\ retry.pc = "thrown"
                    /\ retry.outcome = Some(log[k].result)
            /\ retry.pc = "thrown" =>
                /\ log # <<>>
                /\ last.what = "call"
                /\ retry.outcome = Some(last.result)
            \* the throw after the loop is never reached
            /\ retry.pc # "exhausted"

\* C29: fn is invoked at most maxRetries + 1 times; it is invoked again
\* only after a rate-limit failure and only after waiting baseDelay *
\* 2^attempt; the first success is returned; any other error, and a
\* rate-limit error on the last attempt, is rethrown unchanged; the call
\* terminates when fn does; 'Max retries exceeded' is never thrown.
C29_WithRetry ==
    /\ []RetryDiscipline
    /\ <>(retry.pc \in {"returned", "thrown"})

\* fn failed with a rate limit on all four attempts, waited for 1, 2 and 4
\* seconds, and the fourth error was rethrown
C29_Witness ==
    /\ phase = "retry"
    /\ retry.pc = "thrown"
    /\ Cardinality(CallsOf(retry.log)) = 4
    /\ Len(retry.log) = 7
    /\ retry.log[2].ms = 1000
    /\ retry.log[4].ms = 2000
    /\ retry.log[6].ms = 4000
    /\ isRateLimit(retry.outcome[1])

\* the second attempt succeeded and its value was returned
C29_WitnessSuccess ==
    /\ phase = "retry"
    /\ retry.pc = "returned"
    /\ Len(retry.log) = 3
    /\ retry.outcome[1].kind = "value"

-----------------------------------------------------------------------------
(* The page state (SpecHome) *)

\* C30: at most one analysis run is in flight at a time: while loading is
\* true no second run of handleAnalyze can start through any UI event
\* (Analyze button or Enter key in the address field), so results, error
\* and loading always reflect one run and loading is false only when no
\* request is pending.
C30_OneRunInFlight ==
    phase = "home" =>
        /\ Cardinality(home.runs) <= 1
        /\ ~home.loading => home.runs = {}
        /\ \A k \in 1..Len(home.results) : \A r \in home.runs :
                home.results[k].run = r.id

=============================================================================
